---------------------------- MODULE Spec2Model ----------------------------
(***************************************************************************)
(* A model of windows-driver-input-mcp: the rate limiter and motion shaper *)
(* (rate.py), the backend selector, argument coercion and tools (main.py)  *)
(* and the two injection backends (backend.py).                            *)
(*                                                                         *)
(* Units.  Python floats are modelled by scaled integers:                  *)
(*   - a rate of r Hz is the integer r * RatePerHz;                        *)
(*   - a smoothing factor s is the integer s * SmoothDen;                  *)
(*   - the monotonic clock counts ticks, TicksPerSec to the second, and    *)
(*     is only ever read at a whole tick.                                  *)
(* The smoothing factors the model draws are multiples of 1/16, which are  *)
(* exact in binary floating point, and 0.98, for which dx * (1 - s) is     *)
(* never a whole number when 0 < |dx| < 50: for all of them truncating the *)
(* exact product is what int(dx * (1.0 - s)) computes.                     *)
(***************************************************************************)
EXTENDS Integers, Sequences, FiniteSets, TLC

VARIABLES
    \* rate.py: RateLimiter
    cfg,            \* RateLimiter.cfg, a RateConfig
    now,            \* the value time.monotonic() returns
    last_click,     \* RateLimiter._last_click
    last_key,       \* RateLimiter._last_key
    last_move,      \* RateLimiter._last_move
    \* main.py and backend.py: process start
    env_backend,    \* os.environ's WINDOWS_MCP_INPUT_BACKEND
    host,           \* the files on disk and what loading the DLL does
    dll_be,         \* the IBSimulatorDLLBackend object, once constructed
    ahk_be,         \* the IBSimulatorAHKBackend object, once constructed
    backend,        \* main.backend
    pc,             \* "start", "serving", or "failed" (import raised)
    error,          \* the exception that ended the last operation
    \* main.py: argument coercion
    value,          \* the argument handed to _coerce_xy
    result,         \* what _coerce_xy returned or raised
    \* the desktop
    cursor,         \* where the mouse cursor is, as GetCursorPos reads it
    \* observation of the calls made (history, not program state)
    last_gate,      \* the most recent sleep_until_ready call
    last_filter,    \* the most recent filter_target call
    last_info,      \* the most recent backend.info() a tool read
    n_ops,          \* operations performed so far
    events,         \* the rate gates passed and the backend and Win32
                    \* calls made by the most recent tool call, in order
    last_tool,      \* the most recent tool call and how it ended
    last_send,      \* the most recent send_text call of the DLL backend
    last_config,    \* the Input-RateLimiter-Config call SpecConfig made
    windows,        \* the windows of the desktop, in the order EnumWindows
                    \* hands them to its callback
    last_enum,      \* the most recent Windows-List or Windows-Select call
    clipboard       \* the text on the clipboard

rateVars   == <<cfg, now, last_click, last_key, last_move>>
bootVars   == <<env_backend, host, dll_be, ahk_be, backend, pc, error>>
vars       == <<cfg, now, last_click, last_key, last_move,
                env_backend, host, dll_be, ahk_be, backend, pc, error,
                value, result, cursor,
                last_gate, last_filter, last_info, n_ops,
                events, last_tool, last_send, last_config,
                windows, last_enum, clipboard>>
deskVars   == <<windows, last_enum, clipboard>>
coerceVars == <<value, result>>
toolVars   == <<cursor, events, last_tool, last_send, last_config,
                windows, last_enum, clipboard>>

---------------------------------------------------------------------------
(* Scales and bounds *)

RatePerHz == 2000
SmoothDen == 6400
TicksPerSec == 4
MaxCoord == 2
MaxOps == 3
MaxOversleep == 1
MaxStrLen == 5
MaxToolCalls == 2
MaxTextLen == 3
MaxKeys == 3
MaxTyped == 2

\* rate.py: the floor of max(rate, 0.001), in rate units
MinRate == RatePerHz \div 1000
\* main.py rate_config: the clamps (Hz, pixels, and 0.98 of SmoothDen)
MoveHzMin == 15
MoveHzMax == 480
MaxDeltaMin == 1
SmoothMax == (98 * SmoothDen) \div 100
RateMin == 1
RateMax == 60

Abs(n) == IF n >= 0 THEN n ELSE -n
Max(a, b) == IF a >= b THEN a ELSE b
Min(a, b) == IF a <= b THEN a ELSE b
\* the items of a sequence
Range(s) == {s[i] : i \in DOMAIN s}
\* Python int() of a quotient: truncation toward zero (d > 0)
TruncDiv(n, d) == IF n >= 0 THEN n \div d ELSE -((-n) \div d)
\* the least whole number of ticks that is >= n / d (n >= 0, d > 0)
CeilDiv(n, d) == (n + d - 1) \div d

Kinds == {"click", "key", "move"}

\* an optional tool argument: None, a value that cannot be cast to a
\* number, or a number
NoneVal == [t |-> "none"]
BadVal == [t |-> "bad"]
NumVal(v) == [t |-> "num", v |-> v]
\* the float nan as an argument
NaNVal == [t |-> "nan"]

\* the Python value None
NoneE == [t |-> "none"]
\* _coerce_xy has not been called
NoResult == [ok |-> FALSE, x |-> 0, y |-> 0, err |-> "not called"]
NoCoerce == /\ value = NoneE
            /\ result = NoResult
\* no tool has been called
NoTool ==
    [tool |-> "none", outcome |-> "none", bad_loc |-> FALSE,
     stamps |-> <<0, 0, 0>>, repeats |-> 0]
\* send_text has not been called
NoSend ==
    [called |-> FALSE, text |-> <<>>, scanned |-> <<>>, calls |-> <<>>,
     outcome |-> "none"]
\* Input-RateLimiter-Config has not been called
NoConfig ==
    [called |-> FALSE, before |-> <<>>, move_hz |-> NoneVal,
     max_delta |-> NoneVal, smooth |-> NoneVal, cps |-> NoneVal,
     kps |-> NoneVal]
\* no window, no Windows-* call made, and an empty clipboard
NoEnum ==
    [tool |-> "none", query |-> NoneE, only_visible |-> TRUE,
     include_minimized |-> TRUE, include_cloaked |-> TRUE,
     limit |-> NoneVal, index |-> NoneVal,
     results |-> <<>>, seen |-> 0, outcome |-> "none"]
NoDesk == /\ windows = <<>>
          /\ last_enum = NoEnum
          /\ clipboard = <<>>
NoTools == /\ cursor = <<0, 0>>
           /\ events = <<>>
           /\ last_tool = NoTool
           /\ last_send = NoSend
           /\ last_config = NoConfig
           /\ NoDesk

---------------------------------------------------------------------------
(* rate.py: RateConfig and RateLimiter *)

\* RateConfig(): the dataclass defaults
DefaultConfig ==
    [mouse_move_hz   |-> 120 * RatePerHz,
     mouse_max_delta |-> 60,
     mouse_smooth    |-> 0,
     clicks_per_sec  |-> 8 * RatePerHz,
     keys_per_sec    |-> 12 * RatePerHz]

\* the configured rate a kind is gated by
RateOf(c, kind) ==
    CASE kind = "click" -> c.clicks_per_sec
      [] kind = "key"   -> c.keys_per_sec
      [] kind = "move"  -> c.mouse_move_hz

LastOf(kind) ==
    CASE kind = "click" -> last_click
      [] kind = "key"   -> last_key
      [] kind = "move"  -> last_move

MinDtBug(rate) ==
    IF rate <= 0 THEN 0
    ELSE CeilDiv(TicksPerSec * RatePerHz, Max(rate, MinRate))

\* min_dt = 1.0 / max(rate, 0.001), in ticks
MinDt(rate) == CeilDiv(TicksPerSec * RatePerHz, Max(rate, MinRate))

TimeUntilBug(rate, last, t) == 0

\* time_until_click / _key / _move read at clock value t
TimeUntil(rate, last, t) == Max(0, MinDt(rate) - (t - last))

ClampAxisBug(d, md) == d

\* filter_target, one axis: the clamp to mouse_max_delta
ClampAxis(d, md) ==
    IF md > 0 /\ Abs(d) > md
    THEN (IF d > 0 THEN md ELSE -md)
    ELSE d

SmoothAxisBug(d, s) ==
    IF s > 0 THEN TruncDiv(d * s, SmoothDen) ELSE d

\* filter_target, one axis: int(d * (1.0 - s)) when s > 0
SmoothAxis(d, s) ==
    IF s > 0 THEN TruncDiv(d * (SmoothDen - s), SmoothDen) ELSE d

FilterTargetBug(c, cur, target) ==
    LET dx == ClampAxis(target[1] - cur[1], c.mouse_max_delta)
        dy == ClampAxis(target[2] - cur[2], c.mouse_max_delta)
    IN  <<cur[1] + dx + SmoothAxis(dx, c.mouse_smooth),
          cur[2] + dy + SmoothAxis(dy, c.mouse_smooth)>>

\* RateLimiter.filter_target(cur, target) under configuration c
FilterTarget(c, cur, target) ==
    LET dx == ClampAxis(target[1] - cur[1], c.mouse_max_delta)
        dy == ClampAxis(target[2] - cur[2], c.mouse_max_delta)
    IN  <<cur[1] + SmoothAxis(dx, c.mouse_smooth),
          cur[2] + SmoothAxis(dy, c.mouse_smooth)>>

---------------------------------------------------------------------------
(* main.py: the configuration read from the environment at process start, *)
(* and Input-RateLimiter-Config                                           *)

\* a rate the environment can configure: negative, zero, below the floor
\* of 0.001 Hz, 0.5 Hz, 2 Hz
EnvRates == {-RatePerHz, 0, 1, RatePerHz \div 2, 2 * RatePerHz}
\* WINDOWS_MCP_RATE_MAX_DELTA: any int
EnvMaxDeltas == 0 .. (MaxCoord + 1)
\* the multiples of 1/16 in [0, 1)
DyadicSmooth == {(k * SmoothDen) \div 16 : k \in 0 .. 15}
\* WINDOWS_MCP_RATE_SMOOTH: any float; -0.25, 0, 0.25, 0.5, 0.75, 0.98,
\* 15/16, 1.25, 2 and 3
EnvSmooths ==
    {-(SmoothDen \div 4), 0, SmoothDen \div 4, SmoothDen \div 2,
     (3 * SmoothDen) \div 4, SmoothMax, (15 * SmoothDen) \div 16,
     (5 * SmoothDen) \div 4, 2 * SmoothDen, 3 * SmoothDen}

\* rate_config._num: the argument cast, or the current value when the
\* argument is None or cannot be cast
Num(v, cur) == IF v.t = "num" THEN v.v ELSE cur

\* the bare _num(v, cur, float), with no clamp
ClampedBug(lo, hi, v, cur) == IF v.t = "nan" THEN hi ELSE Num(v, cur)

\* max(lo, min(hi, _num(v, cur, float))); min(hi, nan) is hi
Clamped(lo, hi, v, cur) ==
    IF v.t = "nan" THEN hi ELSE Max(lo, Min(hi, Num(v, cur)))

\* rate_config(move_hz, max_delta, smooth, cps, kps); int(nan) raises, so
\* a max_delta of nan leaves the current value
RateConfig(move_hz, max_delta, smooth, cps, kps) ==
    /\ cfg' =
         [mouse_move_hz   |-> Clamped(MoveHzMin * RatePerHz,
                                      MoveHzMax * RatePerHz,
                                      move_hz, cfg.mouse_move_hz),
          mouse_max_delta |-> Max(MaxDeltaMin,
                                  Num(max_delta, cfg.mouse_max_delta)),
          mouse_smooth    |-> Clamped(0, SmoothMax,
                                      smooth, cfg.mouse_smooth),
          clicks_per_sec  |-> Clamped(RateMin * RatePerHz,
                                      RateMax * RatePerHz,
                                      cps, cfg.clicks_per_sec),
          keys_per_sec    |-> Clamped(RateMin * RatePerHz,
                                      RateMax * RatePerHz,
                                      kps, cfg.keys_per_sec)]
    /\ UNCHANGED <<now, last_click, last_key, last_move>>

\* sleep_until_ready(kind) with a kind that is none of the three: no
\* branch of the if/elif chain is taken
GateNoOp(kind) ==
    /\ last_gate' = [last_gate EXCEPT !.kind = kind, !.rate = 0,
                                      !.before = 0, !.after = 0,
                                      !.slept = 0, !.nth = 0]
    /\ UNCHANGED <<cfg, now, last_click, last_key, last_move>>

SleepUntilReadyCross(kind, over) ==
    LET t    == TimeUntil(RateOf(cfg, kind), LastOf(kind), now)
        wake == now + t + over
    IN  IF kind \notin Kinds THEN GateNoOp(kind) ELSE
        /\ now' = wake
        /\ last_click' = IF kind \in {"click", "key"} THEN wake
                         ELSE last_click
        /\ last_key'   = IF kind = "key"   THEN wake ELSE last_key
        /\ last_move'  = IF kind = "move"  THEN wake ELSE last_move
        /\ last_gate'  = [kind   |-> kind,
                          rate   |-> RateOf(cfg, kind),
                          before |-> LastOf(kind),
                          after  |-> wake,
                          slept  |-> t,
                          nth    |-> Min(2, last_gate.seen[kind] + 1),
                          seen   |-> [last_gate.seen EXCEPT
                                        ![kind] = Min(2, @ + 1)]]
        /\ UNCHANGED cfg

SleepUntilReadyBug(kind, over) ==
    LET t    == TimeUntil(RateOf(cfg, kind), LastOf(kind), now)
        wake == now + t + over
    IN  IF kind \notin Kinds THEN GateNoOp(kind) ELSE
        /\ now' = wake
        /\ last_click' = IF kind = "click" THEN now ELSE last_click
        /\ last_key'   = IF kind = "key"   THEN now ELSE last_key
        /\ last_move'  = IF kind = "move"  THEN now ELSE last_move
        /\ last_gate'  = [kind   |-> kind,
                          rate   |-> RateOf(cfg, kind),
                          before |-> LastOf(kind),
                          after  |-> now,
                          slept  |-> t,
                          nth    |-> Min(2, last_gate.seen[kind] + 1),
                          seen   |-> [last_gate.seen EXCEPT
                                        ![kind] = Min(2, @ + 1)]]
        /\ UNCHANGED cfg

\* RateLimiter.sleep_until_ready(kind): read the clock, sleep for the
\* deficit (time.sleep returns after at least that long), stamp the clock
SleepUntilReady(kind, over) ==
    LET t    == TimeUntil(RateOf(cfg, kind), LastOf(kind), now)
        wake == now + t + over
    IN  IF kind \notin Kinds THEN GateNoOp(kind) ELSE
        /\ now' = wake
        /\ last_click' = IF kind = "click" THEN wake ELSE last_click
        /\ last_key'   = IF kind = "key"   THEN wake ELSE last_key
        /\ last_move'  = IF kind = "move"  THEN wake ELSE last_move
        /\ last_gate'  = [kind   |-> kind,
                          rate   |-> RateOf(cfg, kind),
                          before |-> LastOf(kind),
                          after  |-> wake,
                          slept  |-> t,
                          nth    |-> Min(2, last_gate.seen[kind] + 1),
                          seen   |-> [last_gate.seen EXCEPT
                                        ![kind] = Min(2, @ + 1)]]
        /\ UNCHANGED cfg

\* time passing between two operations
Tick ==
    /\ now' = now + 1
    /\ UNCHANGED <<cfg, last_click, last_key, last_move>>

NoGate ==
    [kind |-> "none", rate |-> 0, before |-> 0, after |-> 0, slept |-> 0,
     nth |-> 0, seen |-> [k \in Kinds |-> 0]]
NoFilter ==
    [called |-> FALSE, cfg |-> DefaultConfig, cur |-> <<0, 0>>,
     target |-> <<0, 0>>, out |-> <<0, 0>>]

---------------------------------------------------------------------------
(* backend.py: the two backends' constructors; main.py: _backend_from_env *)

\* what process start finds: whether IbInputSimulator.dll, an AutoHotkey
\* executable and IbInputSimulator.ahk exist, whether ctypes.WinDLL loads
\* the DLL and binds its functions, and what IbSendInit returns
Hosts ==
    [dll_file : BOOLEAN, ahk_exe : BOOLEAN, ahk_inc : BOOLEAN,
     dll_loads : BOOLEAN, init_rc : {0, 1}]

NotMade == [made |-> FALSE, ready |-> FALSE, found |-> {}]

DLLBackendInitBug(h) ==
    [made |-> TRUE,
     ready |-> h.dll_file /\ h.dll_loads,
     found |-> IF h.dll_file THEN {"dll"} ELSE {}]

\* IBSimulatorDLLBackend.__init__: _ready, and whether _dll_path is set
DLLBackendInit(h) ==
    [made |-> TRUE,
     ready |-> IF ~h.dll_file THEN FALSE
               ELSE IF ~h.dll_loads THEN FALSE
               ELSE IF h.init_rc # 0 THEN FALSE
               ELSE TRUE,
     found |-> IF h.dll_file THEN {"dll"} ELSE {}]

\* IBSimulatorAHKBackend.__init__: _ready, and which of _ahk, _inc and
\* _dll are set
AHKBackendInit(h) ==
    [made |-> TRUE,
     ready |-> h.ahk_exe /\ h.ahk_inc /\ h.dll_file,
     found |-> {f \in {"ahk", "inc", "dll"} :
                  \/ f = "ahk" /\ h.ahk_exe
                  \/ f = "inc" /\ h.ahk_inc
                  \/ f = "dll" /\ h.dll_file}]

\* the values of WINDOWS_MCP_INPUT_BACKEND the model draws
EnvBackends ==
    {"unset", "", "ibsim-dll", "IBSIM-DLL", "ibsim", "IbSim", "ibsim-ahk",
     "Ibsim-AHK", "pyautogui", "ibsim-dll "}

\* str.lower on those values
Lower(v) ==
    CASE v = "IBSIM-DLL" -> "ibsim-dll"
      [] v = "IbSim"     -> "ibsim"
      [] v = "Ibsim-AHK" -> "ibsim-ahk"
      [] OTHER           -> v

\* (os.getenv("WINDOWS_MCP_INPUT_BACKEND", "ibsim-dll") or "").lower()
Preferred(v) == IF v = "unset" THEN "ibsim-dll" ELSE Lower(v)

NoError == "none"
ErrDLLNotReady == "RuntimeError: IBSimulator DLL backend not ready"
ErrNoneReady == "RuntimeError: No driver-level backend is ready"
ErrAHKNotReady == "RuntimeError: IBSimulator AHK backend not ready"
ErrUnsupported == "RuntimeError: Unsupported WINDOWS_MCP_INPUT_BACKEND"
StartupErrors ==
    {ErrDLLNotReady, ErrNoneReady, ErrAHKNotReady, ErrUnsupported}

Chosen(ret, made, err) == [ret |-> ret, made |-> made, error |-> err]

\* returns the DLL backend without looking at info().ready
SelectBugNoReadyCheck(preferred, h) ==
    IF preferred \in {"ibsim-dll", "ibsim"}
    THEN Chosen("dll", {"dll"}, NoError)
    ELSE IF preferred = "ibsim-ahk"
    THEN IF AHKBackendInit(h).ready
         THEN Chosen("ahk", {"ahk"}, NoError)
         ELSE Chosen("none", {"ahk"}, ErrAHKNotReady)
    ELSE Chosen("none", {}, ErrUnsupported)

\* strict for "ibsim" as well: never falls back
SelectBugNoFallback(preferred, h) ==
    IF preferred \in {"ibsim-dll", "ibsim"}
    THEN IF DLLBackendInit(h).ready
         THEN Chosen("dll", {"dll"}, NoError)
         ELSE Chosen("none", {"dll"}, ErrDLLNotReady)
    ELSE IF preferred = "ibsim-ahk"
    THEN IF AHKBackendInit(h).ready
         THEN Chosen("ahk", {"ahk"}, NoError)
         ELSE Chosen("none", {"ahk"}, ErrAHKNotReady)
    ELSE Chosen("none", {}, ErrUnsupported)

\* falls back for "ibsim-dll" as well
SelectBugAlwaysFallback(preferred, h) ==
    IF preferred \in {"ibsim-dll", "ibsim"}
    THEN IF DLLBackendInit(h).ready
         THEN Chosen("dll", {"dll"}, NoError)
         ELSE IF AHKBackendInit(h).ready
         THEN Chosen("ahk", {"dll", "ahk"}, NoError)
         ELSE Chosen("none", {"dll", "ahk"}, ErrNoneReady)
    ELSE IF preferred = "ibsim-ahk"
    THEN IF AHKBackendInit(h).ready
         THEN Chosen("ahk", {"ahk"}, NoError)
         ELSE Chosen("none", {"ahk"}, ErrAHKNotReady)
    ELSE Chosen("none", {}, ErrUnsupported)

\* _backend_from_env: the backend returned ("none" when it raises), the
\* backends constructed on the way, and the exception raised
Select(preferred, h) ==
    IF preferred \in {"ibsim-dll", "ibsim"}
    THEN IF DLLBackendInit(h).ready
         THEN Chosen("dll", {"dll"}, NoError)
         ELSE IF preferred = "ibsim-dll"
         THEN Chosen("none", {"dll"}, ErrDLLNotReady)
         ELSE IF AHKBackendInit(h).ready
         THEN Chosen("ahk", {"dll", "ahk"}, NoError)
         ELSE Chosen("none", {"dll", "ahk"}, ErrNoneReady)
    ELSE IF preferred = "ibsim-ahk"
    THEN IF AHKBackendInit(h).ready
         THEN Chosen("ahk", {"ahk"}, NoError)
         ELSE Chosen("none", {"ahk"}, ErrAHKNotReady)
    ELSE Chosen("none", {}, ErrUnsupported)

\* main.py at import: backend = _backend_from_env(); an exception ends the
\* process before any tool is registered
Startup ==
    /\ pc = "start"
    /\ LET c == Select(Preferred(env_backend), host)
       IN  /\ dll_be' = IF "dll" \in c.made THEN DLLBackendInit(host)
                        ELSE NotMade
           /\ ahk_be' = IF "ahk" \in c.made THEN AHKBackendInit(host)
                        ELSE NotMade
           /\ backend' = c.ret
           /\ error' = c.error
           /\ pc' = IF c.error = NoError THEN "serving" ELSE "failed"
    /\ UNCHANGED <<env_backend, host, last_info>>

\* backend.info(), read through the module-level backend
BackendInfo ==
    CASE backend = "dll" -> [name |-> "IBSimulatorDLL", ready |-> dll_be.ready]
      [] backend = "ahk" -> [name |-> "IBSimulatorAHK", ready |-> ahk_be.ready]

NoInfo == [called |-> FALSE, name |-> "none", ready |-> FALSE]

\* the Input-Info tool
InputInfo ==
    /\ pc = "serving"
    /\ last_info' = [called |-> TRUE, name |-> BackendInfo.name,
                     ready |-> BackendInfo.ready]
    /\ UNCHANGED bootVars

\* a host on which everything is in place
GoodHost ==
    [dll_file |-> TRUE, ahk_exe |-> TRUE, ahk_inc |-> TRUE,
     dll_loads |-> TRUE, init_rc |-> 0]

\* the process after a start that selected the DLL backend
Serving ==
    /\ env_backend = "unset"
    /\ host = GoodHost
    /\ dll_be = DLLBackendInit(GoodHost)
    /\ ahk_be = NotMade
    /\ backend = "dll"
    /\ pc = "serving"
    /\ error = NoError
    /\ last_info = NoInfo

---------------------------------------------------------------------------
(* SpecBackend: process start on every host and environment *)

InitBackend ==
    /\ env_backend \in EnvBackends
    /\ host \in Hosts
    /\ dll_be = NotMade
    /\ ahk_be = NotMade
    /\ backend = "none"
    /\ pc = "start"
    /\ error = NoError
    /\ last_info = NoInfo
    /\ cfg = DefaultConfig
    /\ now = 0
    /\ last_click = 0
    /\ last_key = 0
    /\ last_move = 0
    /\ last_gate = NoGate
    /\ last_filter = NoFilter
    /\ n_ops = 0
    /\ NoCoerce
    /\ NoTools

NextBackend ==
    \/ Startup /\ UNCHANGED <<rateVars, last_gate, last_filter, n_ops,
                              coerceVars, toolVars>>
    \/ InputInfo /\ UNCHANGED <<rateVars, last_gate, last_filter, n_ops,
                                coerceVars, toolVars>>

SpecBackend == InitBackend /\ [][NextBackend]_vars

---------------------------------------------------------------------------
(* main.py: _coerce_xy                                                    *)
(*                                                                        *)
(* A Python value is a record tagged by its type.  A str is a sequence of *)
(* chunks: the characters "[", "]", ",", " ", "-", the digits, and the    *)
(* four letters of the JSON literal true taken as one chunk.              *)

Digits == {"0", "1", "2", "3", "4", "5", "6", "7", "8", "9"}
Alphabet == {"[", "]", ",", " ", "-", "0", "1", "2", "true"}

IntE(n) == [t |-> "int", n |-> n]
\* the float half / 2
FloatE(half) == [t |-> "float", half |-> half]
StrE(chunks) == [t |-> "str", s |-> chunks]
ListE(items) == [t |-> "list", items |-> items]
TupleE(items) == [t |-> "tuple", items |-> items]
DictE(map) == [t |-> "dict", map |-> map]

Ok(x, y) == [ok |-> TRUE, x |-> x, y |-> y, err |-> "none"]
Raised(err) == [ok |-> FALSE, x |-> 0, y |-> 0, err |-> err]

DigitValue(c) ==
    CASE c = "0" -> 0 [] c = "1" -> 1 [] c = "2" -> 2 [] c = "3" -> 3
      [] c = "4" -> 4 [] c = "5" -> 5 [] c = "6" -> 6 [] c = "7" -> 7
      [] c = "8" -> 8 [] c = "9" -> 9

RECURSIVE DigitsValue(_)
\* int() of a run of digits
DigitsValue(s) ==
    IF s = <<>> THEN 0
    ELSE 10 * DigitsValue(SubSeq(s, 1, Len(s) - 1)) + DigitValue(s[Len(s)])

\* -?\d+ matched against the whole of s
IsIntToken(s) ==
    LET d == IF s # <<>> /\ s[1] = "-" THEN Tail(s) ELSE s
    IN  d # <<>> /\ \A i \in 1 .. Len(d) : d[i] \in Digits

\* int() of a token that matches -?\d+
TokenValue(s) ==
    IF s[1] = "-" THEN -DigitsValue(Tail(s)) ELSE DigitsValue(s)

RECURSIVE Strip(_)
\* str.strip()
Strip(s) ==
    IF s = <<>> THEN s
    ELSE IF s[1] = " " THEN Strip(Tail(s))
    ELSE IF s[Len(s)] = " " THEN Strip(SubSeq(s, 1, Len(s) - 1))
    ELSE s

\* the end of the run of digits that starts at position i of s
RECURSIVE DigitRunEnd(_, _)
DigitRunEnd(s, i) ==
    IF i < Len(s) /\ s[i + 1] \in Digits THEN DigitRunEnd(s, i + 1) ELSE i

RECURSIVE FindAllFromBug(_, _)
FindAllFromBug(s, i) ==
    IF i > Len(s) THEN <<>>
    ELSE IF s[i] \in Digits
    THEN <<SubSeq(s, i, i)>> \o FindAllFromBug(s, i + 1)
    ELSE FindAllFromBug(s, i + 1)

RECURSIVE FindAllFrom(_, _)
\* re.findall(r"-?\d+", s), scanning from position i: leftmost, greedy,
\* not overlapping
FindAllFrom(s, i) ==
    IF i > Len(s) THEN <<>>
    ELSE IF s[i] = "-" /\ i < Len(s) /\ s[i + 1] \in Digits
    THEN LET e == DigitRunEnd(s, i + 1)
         IN  <<SubSeq(s, i, e)>> \o FindAllFrom(s, e + 1)
    ELSE IF s[i] \in Digits
    THEN LET e == DigitRunEnd(s, i)
         IN  <<SubSeq(s, i, e)>> \o FindAllFrom(s, e + 1)
    ELSE FindAllFrom(s, i + 1)

\* int(e) of a list element or dict value
IntOf(e) ==
    CASE e.t = "int"   -> [ok |-> TRUE, n |-> e.n, err |-> "none"]
      [] e.t = "float" -> [ok |-> TRUE, n |-> TruncDiv(e.half, 2),
                           err |-> "none"]
      [] e.t = "str"   -> IF IsIntToken(Strip(e.s))
                          THEN [ok |-> TRUE, n |-> TokenValue(Strip(e.s)),
                                err |-> "none"]
                          ELSE [ok |-> FALSE, n |-> 0, err |-> "ValueError"]
      [] OTHER         -> [ok |-> FALSE, n |-> 0, err |-> "TypeError"]

\* int(a), int(b): the pair, or the first exception
IntPair(a, b) ==
    IF ~IntOf(a).ok THEN Raised(IntOf(a).err)
    ELSE IF ~IntOf(b).ok THEN Raised(IntOf(b).err)
    ELSE Ok(IntOf(a).n, IntOf(b).n)

\* the positions of the commas of s
Commas(s) == {i \in 1 .. Len(s) : s[i] = ","}

\* a JSON value that int() accepts, in the alphabet: a number with no
\* leading zero, or true
JsonScalar(s) ==
    \/ s = <<"true">>
    \/ /\ IsIntToken(s)
       /\ LET d == IF s[1] = "-" THEN Tail(s) ELSE s
          IN  Len(d) = 1 \/ d[1] # "0"

JsonScalarValue(s) == IF s = <<"true">> THEN 1 ELSE TokenValue(s)

\* the try block of _coerce_xy for a string "[...]": json.loads gives a
\* list of two values and int() accepts both; any exception is swallowed.
\* In the alphabet that is exactly: no inner bracket, one comma, and a
\* scalar on either side of it.
JsonPair(s) ==
    LET inner == SubSeq(s, 2, Len(s) - 1)
    IN  IF /\ \A i \in 1 .. Len(inner) : inner[i] \notin {"[", "]"}
           /\ Cardinality(Commas(inner)) = 1
        THEN LET c == CHOOSE i \in Commas(inner) : TRUE
                 a == Strip(SubSeq(inner, 1, c - 1))
                 b == Strip(SubSeq(inner, c + 1, Len(inner)))
             IN  IF JsonScalar(a) /\ JsonScalar(b)
                 THEN Ok(JsonScalarValue(a), JsonScalarValue(b))
                 ELSE Raised("swallowed")
        ELSE Raised("swallowed")

Bracketed(s) == Len(s) >= 1 /\ s[1] = "[" /\ s[Len(s)] = "]"

\* the string branch of _coerce_xy
CoerceStr(chunks) ==
    LET s == Strip(chunks)
        j == IF Bracketed(s) /\ Len(s) >= 2 THEN JsonPair(s)
             ELSE Raised("swallowed")
        nums == FindAllFrom(s, 1)
    IN  IF j.ok THEN j
        ELSE IF Len(nums) >= 2
        THEN Ok(TokenValue(nums[1]), TokenValue(nums[2]))
        ELSE Raised("ValueError")

\* _coerce_xy(value)
CoerceXY(v) ==
    IF v.t \in {"list", "tuple"} /\ Len(v.items) = 2
    THEN IntPair(v.items[1], v.items[2])
    ELSE IF v.t = "dict" /\ {"x", "y"} \subseteq DOMAIN v.map
    THEN IntPair(v.map["x"], v.map["y"])
    ELSE IF v.t = "str"
    THEN CoerceStr(v.s)
    ELSE Raised("ValueError")

---------------------------------------------------------------------------
(* SpecCoerce: _coerce_xy on every argument *)

\* list elements and dict values: 1, -2, 1.5, None, "2", "true"
Elems ==
    {IntE(1), IntE(-2), FloatE(3), NoneE, StrE(<<"2">>), StrE(<<"true">>)}

Strings == UNION {[1 .. n -> Alphabet] : n \in 0 .. MaxStrLen}
ElemSeqs == UNION {[1 .. n -> Elems] : n \in 0 .. 3}
Dicts == UNION {[K -> Elems] : K \in SUBSET {"x", "y", "z"}}

Values ==
    {StrE(c) : c \in Strings}
        \cup {ListE(i) : i \in ElemSeqs}
        \cup {TupleE(i) : i \in ElemSeqs}
        \cup {DictE(m) : m \in Dicts}
        \cup {IntE(1), NoneE}

InitCoerce ==
    /\ value \in Values
    /\ result = NoResult
    /\ cfg = DefaultConfig
    /\ now = 0
    /\ last_click = 0
    /\ last_key = 0
    /\ last_move = 0
    /\ last_gate = NoGate
    /\ last_filter = NoFilter
    /\ n_ops = 0
    /\ Serving
    /\ NoTools

\* a call _coerce_xy(value)
Coerce ==
    /\ result = NoResult
    /\ result' = CoerceXY(value)
    /\ UNCHANGED <<value, rateVars, bootVars, toolVars,
                   last_gate, last_filter, last_info, n_ops>>

NextCoerce == Coerce

SpecCoerce == InitCoerce /\ [][NextCoerce]_vars

---------------------------------------------------------------------------
(* SpecFilter: filter_target under every configuration *)

Coord == -MaxCoord .. MaxCoord
Point == Coord \X Coord

\* RateLimiter(RateConfig(...)) at process start (main.py), the rates left
\* at their defaults
InitFilter ==
    /\ \E md \in EnvMaxDeltas, s \in EnvSmooths :
         cfg = [DefaultConfig EXCEPT !.mouse_max_delta = md,
                                     !.mouse_smooth = s]
    /\ now = 0
    /\ last_click = 0
    /\ last_key = 0
    /\ last_move = 0
    /\ last_gate = NoGate
    /\ last_filter = NoFilter
    /\ n_ops = 0
    /\ Serving
    /\ NoTools
    /\ NoCoerce

\* a call rate.filter_target(cur, target); filter_target changes no state,
\* so one call is observed per configuration
FilterCall(cur, target) ==
    /\ ~last_filter.called
    /\ last_filter' = [called |-> TRUE, cfg |-> cfg, cur |-> cur,
                       target |-> target,
                       out |-> FilterTarget(cfg, cur, target)]
    /\ UNCHANGED <<cfg, now, last_click, last_key, last_move,
                   last_gate, n_ops>>
    /\ UNCHANGED <<bootVars, last_info, coerceVars, toolVars>>

ConfigShape ==
    /\ \E md \in {NoneVal, BadVal, NumVal(0), NumVal(MaxCoord)},
          s \in {NoneVal, NumVal(-SmoothDen), NumVal(SmoothDen \div 2),
                 NumVal(3 * SmoothDen)} :
         RateConfig(NoneVal, md, s, NoneVal, NoneVal)
    /\ last_filter' = NoFilter
    /\ UNCHANGED <<last_gate, n_ops, bootVars, last_info, coerceVars,
                   toolVars>>

NextFilter ==
    \/ \E c \in Point, t \in Point : FilterCall(c, t)
    \/ ConfigShape

SpecFilter == InitFilter /\ [][NextFilter]_vars

---------------------------------------------------------------------------
(* SpecRate: the throttle under every configuration and schedule *)

\* the monotonic clock at process start is arbitrary; the stamps start at 0.0
StartTimes == {0, 3, 1000 * TicksPerSec}

InitRate ==
    /\ \E c \in EnvRates, k \in {0, 12 * RatePerHz},
          m \in {RatePerHz \div 2, 120 * RatePerHz} :
         cfg = [DefaultConfig EXCEPT !.clicks_per_sec = c,
                                     !.keys_per_sec = k,
                                     !.mouse_move_hz = m]
    /\ now \in StartTimes
    /\ last_click = 0
    /\ last_key = 0
    /\ last_move = 0
    /\ last_gate = NoGate
    /\ last_filter = NoFilter
    /\ n_ops = 0
    /\ Serving
    /\ NoTools
    /\ NoCoerce

\* the kinds sleep_until_ready is called with: the three, and one that is
\* none of them
GateKinds == Kinds \cup {"scroll"}

Gate ==
    /\ n_ops < MaxOps
    /\ \E kind \in GateKinds, over \in 0 .. MaxOversleep :
         SleepUntilReady(kind, over)
    /\ n_ops' = n_ops + 1
    /\ UNCHANGED <<last_filter, bootVars, last_info, coerceVars, toolVars>>

Idle ==
    /\ n_ops < MaxOps
    /\ Tick
    /\ n_ops' = n_ops + 1
    /\ UNCHANGED <<last_gate, last_filter, bootVars, last_info,
                   coerceVars, toolVars>>

ConfigRates ==
    /\ n_ops < MaxOps
    /\ \E mv \in {NoneVal, NumVal(RatePerHz)},
          c \in {NoneVal, BadVal, NumVal(RatePerHz \div 2)},
          k \in {NoneVal, NumVal(100 * RatePerHz)} :
         RateConfig(mv, NoneVal, NoneVal, c, k)
    /\ n_ops' = n_ops + 1
    /\ UNCHANGED <<last_gate, last_filter, bootVars, last_info,
                   coerceVars, toolVars>>

NextRate == Gate \/ Idle \/ ConfigRates

SpecRate == InitRate /\ [][NextRate]_vars

---------------------------------------------------------------------------
(* Claims about filter_target (SpecFilter) *)

StepX(f) == f.out[1] - f.cur[1]
StepY(f) == f.out[2] - f.cur[2]

\* C1 as stated: whatever mouse_max_delta is configured, the step that
\* filter_target returns is at most mouse_max_delta in either axis.
C1_AnyMaxDelta ==
    last_filter.called =>
        /\ Abs(StepX(last_filter)) <= last_filter.cfg.mouse_max_delta
        /\ Abs(StepY(last_filter)) <= last_filter.cfg.mouse_max_delta

\* C1 (amended): when mouse_max_delta is positive and mouse_smooth is at
\* most 2, the step that filter_target returns is at most mouse_max_delta
\* in either axis.
C1_StepWithinMaxDelta ==
    (/\ last_filter.called
     /\ last_filter.cfg.mouse_max_delta > 0
     /\ last_filter.cfg.mouse_smooth <= 2 * SmoothDen) =>
        /\ Abs(StepX(last_filter)) <= last_filter.cfg.mouse_max_delta
        /\ Abs(StepY(last_filter)) <= last_filter.cfg.mouse_max_delta

\* a call whose target is further away than mouse_max_delta in both axes,
\* answered by a step of exactly mouse_max_delta
C1_Witness ==
    /\ last_filter.called
    /\ last_filter.cfg.mouse_max_delta > 0
    /\ last_filter.cfg.mouse_smooth = 0
    /\ last_filter.target[1] - last_filter.cur[1]
         > last_filter.cfg.mouse_max_delta
    /\ last_filter.cur[2] - last_filter.target[2]
         > last_filter.cfg.mouse_max_delta
    /\ StepX(last_filter) = last_filter.cfg.mouse_max_delta
    /\ StepY(last_filter) = -last_filter.cfg.mouse_max_delta

\* the step filter_target takes from the observed call's position under
\* smoothing factor s, everything else as in the call
StepUnder(s) ==
    LET out == FilterTarget([last_filter.cfg EXCEPT !.mouse_smooth = s],
                            last_filter.cur, last_filter.target)
    IN  <<out[1] - last_filter.cur[1], out[2] - last_filter.cur[2]>>

\* C3: for fixed position, target and mouse_max_delta, and smoothing
\* factors s1 <= s2 in [0,1), the step under s2 is no larger in magnitude,
\* in either axis, than the step under s1.
C3_SmoothMonotone ==
    last_filter.called =>
        LET step == [s \in DyadicSmooth \cup {SmoothMax} |-> StepUnder(s)]
        IN  \A s1 \in DOMAIN step, s2 \in DOMAIN step :
                s1 <= s2 =>
                    /\ Abs(step[s2][1]) <= Abs(step[s1][1])
                    /\ Abs(step[s2][2]) <= Abs(step[s1][2])

\* a call under a smoothing factor in (0,1) whose step is shorter than
\* the unsmoothed step and not zero
C3_Witness ==
    /\ last_filter.called
    /\ last_filter.cfg.mouse_smooth > 0
    /\ last_filter.cfg.mouse_smooth < SmoothDen
    /\ Abs(StepX(last_filter)) > 0
    /\ Abs(StepX(last_filter)) < Abs(StepUnder(0)[1])

---------------------------------------------------------------------------
(* Claims about sleep_until_ready (SpecRate) *)

\* C2 as stated: two consecutive sleep_until_ready calls of a kind
\* complete at least 1/rate apart, for every configured rate (1/rate is
\* meaningful for rate > 0).
C2_ReciprocalOfRate ==
    (last_gate.nth >= 2 /\ last_gate.rate > 0) =>
        last_gate.after - last_gate.before
            >= CeilDiv(TicksPerSec * RatePerHz, last_gate.rate)

\* C2 (amended): two consecutive sleep_until_ready calls of a kind
\* complete at least 1/max(rate, 0.001) seconds apart, rate being the
\* rate configured for the kind when the second call is made.
C2_ReciprocalOfFlooredRate ==
    last_gate.nth >= 2 =>
        last_gate.after - last_gate.before
            >= CeilDiv(TicksPerSec * RatePerHz,
                       IF last_gate.rate > MinRate
                       THEN last_gate.rate ELSE MinRate)

\* a second call of a kind that had to sleep and completed exactly
\* 1/rate after the first
C2_Witness ==
    /\ last_gate.nth >= 2
    /\ last_gate.rate > MinRate
    /\ last_gate.slept > 0
    /\ (last_gate.after - last_gate.before) * last_gate.rate
         = TicksPerSec * RatePerHz

---------------------------------------------------------------------------
(* Claims about process start (SpecBackend) *)

\* C4: _backend_from_env either returns a backend whose info().ready is
\* true or raises RuntimeError, so the backend a tool reads is never a
\* backend that is not ready.
C4_BackendReadyOrStartupFails ==
    /\ pc = "serving" => backend \in {"dll", "ahk"} /\ BackendInfo.ready
    /\ pc = "failed" => backend = "none" /\ error \in StartupErrors
    /\ last_info.called => last_info.ready

\* a tool has read the info of the AHK backend that a fallback selected
C4_Witness ==
    /\ last_info.called
    /\ last_info.name = "IBSimulatorAHK"
    /\ dll_be.made
    /\ ~dll_be.ready

DLLSelected == Preferred(env_backend) \in {"ibsim-dll", "ibsim"}
DLLWouldBeReady == host.dll_file /\ host.dll_loads /\ host.init_rc = 0
AHKWouldBeReady == host.ahk_exe /\ host.ahk_inc /\ host.dll_file

\* C5 as stated: the DLL backend is returned whenever it is selected and
\* ready; when it is not ready the selector falls back to the AHK backend
\* if that one is ready, and fails only when neither is ready.
C5_AlwaysFallsBack ==
    (pc # "start" /\ DLLSelected) =>
        /\ DLLWouldBeReady => backend = "dll"
        /\ (~DLLWouldBeReady /\ AHKWouldBeReady) => backend = "ahk"
        /\ pc = "failed" => (~DLLWouldBeReady /\ ~AHKWouldBeReady)

\* C5 (amended): the DLL backend is returned whenever it is selected
\* ('ibsim-dll', 'ibsim' or unset) and ready; only for 'ibsim' does a
\* DLL backend that is not ready fall back to the AHK backend if that one
\* is ready, failing only when neither is ready; for 'ibsim-dll' or unset
\* a DLL backend that is not ready fails the start.
C5_FallbackOnlyForIbsim ==
    (pc # "start" /\ DLLSelected) =>
        /\ DLLWouldBeReady => backend = "dll"
        /\ Preferred(env_backend) = "ibsim" =>
            /\ (~DLLWouldBeReady /\ AHKWouldBeReady) => backend = "ahk"
            /\ pc = "failed" => (~DLLWouldBeReady /\ ~AHKWouldBeReady)
        /\ (Preferred(env_backend) = "ibsim-dll" /\ ~DLLWouldBeReady) =>
            pc = "failed"

\* 'ibsim' was configured, the DLL backend was constructed and is not
\* ready, and the AHK backend was returned
C5_Witness ==
    /\ env_backend \in {"ibsim", "IbSim"}
    /\ dll_be.made
    /\ ~dll_be.ready
    /\ backend = "ahk"
    /\ pc = "serving"

\* C6: unset or 'ibsim-dll': a DLL backend that is not ready raises
\* RuntimeError and the AHK backend is never constructed; 'ibsim-ahk':
\* the DLL backend is never constructed; any other value but 'ibsim'
\* raises RuntimeError and constructs no backend (case-insensitive).
C6_StrictSelection ==
    pc # "start" =>
        /\ (env_backend \in {"unset", "ibsim-dll", "IBSIM-DLL"}
              /\ ~DLLWouldBeReady) =>
                /\ pc = "failed"
                /\ error = ErrDLLNotReady
                /\ ~ahk_be.made
        /\ env_backend \in {"ibsim-ahk", "Ibsim-AHK"} =>
                /\ ~dll_be.made
                /\ ahk_be.made
        /\ env_backend \in {"", "pyautogui", "ibsim-dll "} =>
                /\ pc = "failed"
                /\ error = ErrUnsupported
                /\ ~dll_be.made
                /\ ~ahk_be.made

\* the variable is unset, the DLL backend is not ready, everything the AHK
\* backend needs is on disk, and the start failed without constructing it
C6_Witness ==
    /\ env_backend = "unset"
    /\ pc = "failed"
    /\ AHKWouldBeReady
    /\ dll_be.made
    /\ ~ahk_be.made

\* C7 as stated: a backend reports ready exactly when its files exist:
\* the DLL for the DLL backend; the AutoHotkey executable, the include
\* file and the DLL for the AHK backend.
C7_ReadyIffFilesExist ==
    /\ dll_be.made => (dll_be.ready <=> host.dll_file)
    /\ ahk_be.made =>
        (ahk_be.ready <=> (host.ahk_exe /\ host.ahk_inc /\ host.dll_file))

\* C7 (amended): the AHK backend reports ready exactly when the AutoHotkey
\* executable, the include file and the DLL exist; the DLL backend reports
\* ready exactly when the DLL exists, ctypes loads it and binds its
\* functions, and IbSendInit returns 0.
C7_ReadyIffFilesAndInit ==
    /\ dll_be.made =>
        (dll_be.ready <=>
            (host.dll_file /\ host.dll_loads /\ host.init_rc = 0))
    /\ dll_be.made => (dll_be.ready => "dll" \in dll_be.found)
    /\ ahk_be.made =>
        (ahk_be.ready <=> (host.ahk_exe /\ host.ahk_inc /\ host.dll_file))

\* both backends were constructed on a host that has every file; the DLL
\* backend is not ready because IbSendInit failed, the AHK backend is
C7_Witness ==
    /\ dll_be.made
    /\ ahk_be.made
    /\ host.dll_file
    /\ host.dll_loads
    /\ ~dll_be.ready
    /\ ahk_be.ready

---------------------------------------------------------------------------
(* _coerce_xy: the claims *)

DigitChunk(d) ==
    CASE d = 0 -> "0" [] d = 1 -> "1" [] d = 2 -> "2" [] d = 3 -> "3"
      [] d = 4 -> "4" [] d = 5 -> "5" [] d = 6 -> "6" [] d = 7 -> "7"
      [] d = 8 -> "8" [] d = 9 -> "9"

RECURSIVE DecDigits(_)
DecDigits(n) ==
    IF n < 10 THEN <<DigitChunk(n)>>
    ELSE DecDigits(n \div 10) \o <<DigitChunk(n % 10)>>

\* str(n): the decimal numeral of an integer
Dec(n) == IF n < 0 THEN <<"-">> \o DecDigits(-n) ELSE DecDigits(n)

\* the integers whose representations are compared
PairInts == {-21, -2, -1, 0, 1, 2, 10, 12}

\* the strings 'x,y', 'x y' and '[x,y]' of a pair
CommaString(x, y) == Dec(x) \o <<",">> \o Dec(y)
SpaceString(x, y) == Dec(x) \o <<" ">> \o Dec(y)
JsonString(x, y) == <<"[">> \o Dec(x) \o <<",">> \o Dec(y) \o <<"]">>
PairStrings ==
    [p \in PairInts \X PairInts |->
        {CommaString(p[1], p[2]), SpaceString(p[1], p[2]),
         JsonString(p[1], p[2])}]

ReprStrings == UNION {PairStrings[p] : p \in PairInts \X PairInts}
\* the pair a string of ReprStrings was written from
PairOfString ==
    [s \in ReprStrings |->
        CHOOSE p \in PairInts \X PairInts : s \in PairStrings[p]]

\* v is a documented representation of an integer pair
IsRepr(v) ==
    \/ /\ v.t \in {"list", "tuple"}
       /\ Len(v.items) = 2
       /\ v.items[1].t = "int"
       /\ v.items[2].t = "int"
    \/ /\ v.t = "dict"
       /\ {"x", "y"} \subseteq DOMAIN v.map
       /\ v.map["x"].t = "int"
       /\ v.map["y"].t = "int"
    \/ /\ v.t = "str"
       /\ v.s \in ReprStrings

\* the pair that v represents
PairOf(v) ==
    CASE v.t \in {"list", "tuple"} -> <<v.items[1].n, v.items[2].n>>
      [] v.t = "dict" -> <<v.map["x"].n, v.map["y"].n>>
      [] v.t = "str" -> PairOfString[v.s]

\* a string of one of the documented forms, blanks allowed around the
\* numbers: x,y or x y, or [x,y]
DocumentedString(chunks) ==
    LET s == Strip(chunks)
        two(u, seps) ==
            \E i \in 1 .. Len(u) :
                /\ u[i] \in seps
                /\ IsIntToken(Strip(SubSeq(u, 1, i - 1)))
                /\ IsIntToken(Strip(SubSeq(u, i + 1, Len(u))))
    IN  IF Bracketed(s) /\ Len(s) >= 2
        THEN two(SubSeq(s, 2, Len(s) - 1), {","})
        ELSE two(s, {",", " "})

\* v has one of the documented shapes
DocumentedShape(v) ==
    \/ v.t \in {"list", "tuple"} /\ Len(v.items) = 2
    \/ v.t = "dict" /\ {"x", "y"} \subseteq DOMAIN v.map
    \/ v.t = "str" /\ DocumentedString(v.s)

\* the number of runs of digits in s
DigitRuns(s) ==
    Cardinality({i \in 1 .. Len(s) :
                    s[i] \in Digits /\ (i = 1 \/ s[i - 1] \notin Digits)})

\* the inputs that are certain to be refused: not a list, tuple, dict or
\* str; a list or tuple not of length 2; a dict without x or without y; a
\* string with fewer than two runs of digits that is not written [...]
Refused(v) ==
    \/ v.t \notin {"list", "tuple", "dict", "str"}
    \/ v.t \in {"list", "tuple"} /\ Len(v.items) # 2
    \/ v.t = "dict" /\ ~({"x", "y"} \subseteq DOMAIN v.map)
    \/ v.t = "str" /\ DigitRuns(v.s) < 2 /\ ~Bracketed(Strip(v.s))

\* C9, as stated: every accepted representation of an integer pair is
\* mapped to that pair, and every input that has none of the documented
\* shapes raises ValueError.
C9_RejectsEveryOtherShape ==
    result # NoResult =>
        /\ IsRepr(value) => result = Ok(PairOf(value)[1], PairOf(value)[2])
        /\ ~DocumentedShape(value) => result = Raised("ValueError")

\* C9, corrected: every documented representation of an integer pair is
\* mapped to that pair; ValueError is raised for an input that is not a
\* list, tuple, dict or str, for a list or tuple not of length 2, for a
\* dict without x or y, and for a string with fewer than two runs of
\* digits that is not written [...].  (A string with two or more integers
\* in it is accepted whatever else it holds.)
C9_SamePairAndRefusals ==
    result # NoResult =>
        /\ IsRepr(value) => result = Ok(PairOf(value)[1], PairOf(value)[2])
        /\ Refused(value) => result = Raised("ValueError")

\* the string [1,2] has been coerced to (1, 2)
C9_Witness ==
    /\ value = StrE(JsonString(1, 2))
    /\ result = Ok(1, 2)

---------------------------------------------------------------------------
(* main.py: _parse_hwnd, _coerce_wh and the pointer tools                 *)

\* the hard cap of move_tool's loop
MoveCap == 3000

\* _parse_hwnd(value): an int, a decimal string, or a string that starts
\* with "0x" (one chunk) and is read in base 16
ParseHwnd(v) ==
    IF v.t = "int" THEN [ok |-> TRUE, n |-> v.n, err |-> "none"]
    ELSE IF v.t = "str"
    THEN LET s == Strip(v.s)
         IN  IF s # <<>> /\ s[1] = "0x"
             THEN IF Len(s) >= 2 /\ \A i \in 2 .. Len(s) : s[i] \in Digits
                  THEN [ok |-> TRUE,
                        n |-> LET RECURSIVE Hex(_)
                                  Hex(d) ==
                                      IF d = <<>> THEN 0
                                      ELSE 16 * Hex(SubSeq(d, 1, Len(d) - 1))
                                               + DigitValue(d[Len(d)])
                              IN  Hex(Tail(s)),
                        err |-> "none"]
                  ELSE [ok |-> FALSE, n |-> 0, err |-> "ValueError"]
             ELSE IntOf(StrE(s))
    ELSE [ok |-> FALSE, n |-> 0, err |-> "ValueError"]

\* re.findall(r'-?\\d+', s), scanning from position i: the pattern is an
\* optional minus, a backslash, and one or more letters d
RECURSIVE FindAllWH(_, _)
FindAllWH(s, i) ==
    LET RECURSIVE RunEnd(_)
        RunEnd(j) == IF j < Len(s) /\ s[j + 1] = "d" THEN RunEnd(j + 1) ELSE j
        at(j) == j < Len(s) /\ s[j] = "\\" /\ s[j + 1] = "d"
    IN  IF i > Len(s) THEN <<>>
        ELSE IF s[i] = "-" /\ at(i + 1)
        THEN <<SubSeq(s, i, RunEnd(i + 2))>>
                 \o FindAllWH(s, RunEnd(i + 2) + 1)
        ELSE IF at(i)
        THEN <<SubSeq(s, i, RunEnd(i + 1))>>
                 \o FindAllWH(s, RunEnd(i + 1) + 1)
        ELSE FindAllWH(s, i + 1)

\* _coerce_wh(value); int() of a match of that pattern raises ValueError,
\* as the match holds a backslash
CoerceWH(v) ==
    IF v.t \in {"list", "tuple"} /\ Len(v.items) = 2
    THEN IntPair(v.items[1], v.items[2])
    ELSE IF v.t = "dict" /\ {"w", "h"} \subseteq DOMAIN v.map
    THEN IntPair(v.map["w"], v.map["h"])
    ELSE IF v.t = "str" /\ Len(FindAllWH(v.s, 1)) >= 2
    THEN Raised("ValueError")
    ELSE Raised("ValueError")

\* one entry of events
Event(op, args) == [op |-> op, args |-> args]

\* where backend.move(x, y), .click(x, y) or .drag(.., x, y) leaves a
\* cursor that was at cur: a backend that is not ready returns at once
MovedFrom(cur, p) == IF BackendInfo.ready THEN p ELSE cur
Moved(p) == MovedFrom(cursor, p)

\* the three timestamps of the rate limiter
Stamps == <<last_click, last_key, last_move>>

\* a tool call that ended with exception err before it did anything
Fails(tool, err, bad_loc) ==
    /\ last_tool' = [tool |-> tool, outcome |-> err, bad_loc |-> bad_loc,
                     stamps |-> Stamps, repeats |-> 0]
    /\ events' = <<>>
    /\ UNCHANGED <<rateVars, cursor, last_gate>>

\* a tool call that returned its message
Returns(tool, repeats, bad_loc) ==
    last_tool' = [tool |-> tool, outcome |-> "returned",
                  bad_loc |-> bad_loc, stamps |-> Stamps,
                  repeats |-> repeats]

\* Click-Tool(loc, button, clicks); button is handed to the backend as is
ClickTool(loc, clicks, over) ==
    LET r == CoerceXY(loc)
    IN  IF ~r.ok THEN Fails("Click-Tool", r.err, TRUE)
        ELSE /\ SleepUntilReady("click", over)
             /\ cursor' = Moved(<<r.x, r.y>>)
             /\ events' = <<Event("sleep_until_ready:click", <<>>),
                            Event("click", <<r.x, r.y, Max(1, clicks)>>)>>
             /\ Returns("Click-Tool", 0, FALSE)

RECURSIVE MoveLoop(_, _, _, _, _)
\* the loop of move_tool with fuel iterations left: st is the cursor, the
\* clock and _last_move, and what has been observed so far.  An iteration
\* that leaves the cursor where it was is followed by fuel - 1 iterations
\* that do the same; they are counted in repeats, not listed in events.
MoveLoop(c, target, over, st, fuel) ==
    IF fuel = 0 \/ st.cur = target THEN st
    ELSE LET n     == FilterTarget(c, st.cur, target)
             t     == TimeUntil(c.mouse_move_hz, st.last, st.now)
             wake  == st.now + t + over
             again == MinDt(c.mouse_move_hz) + over
             step  == [st EXCEPT
                         !.cur = MovedFrom(st.cur, n),
                         !.now = wake,
                         !.last = wake,
                         !.prev = st.last,
                         !.slept = t,
                         !.gates = Min(2, @ + 1),
                         !.filter = [called |-> TRUE, cfg |-> c,
                                     cur |-> st.cur, target |-> target,
                                     out |-> n],
                         !.events = @ \o
                             <<Event("sleep_until_ready:move", <<>>),
                               Event("move", n)>>]
         IN  IF n = target
             THEN [step EXCEPT
                     !.cur = MovedFrom(step.cur, target),
                     !.events = @ \o <<Event("move", target)>>]
             ELSE IF step.cur = st.cur
             THEN IF fuel = 1 THEN step
                  ELSE [step EXCEPT
                          !.now = wake + (fuel - 1) * again,
                          !.last = wake + (fuel - 1) * again,
                          !.prev = wake + (fuel - 2) * again,
                          !.slept = MinDt(c.mouse_move_hz),
                          !.gates = 2,
                          !.repeats = fuel - 1]
             ELSE MoveLoop(c, target, over, step, fuel - 1)

\* a loop of MoveCap + 1 iterations
MoveToolBug(to_loc, over) ==
    LET r  == CoerceXY(to_loc)
        st == MoveLoop(cfg, <<r.x, r.y>>, over,
                       [cur |-> cursor, now |-> now, last |-> last_move,
                        prev |-> last_move, slept |-> 0, gates |-> 0,
                        filter |-> last_filter, events |-> <<>>,
                        repeats |-> 0],
                       MoveCap + 1)
    IN  IF ~r.ok
        THEN Fails("Move-Tool", r.err, TRUE) /\ UNCHANGED last_filter
        ELSE /\ now' = st.now
             /\ last_move' = st.last
             /\ cursor' = st.cur
             /\ events' = st.events
             /\ last_filter' = st.filter
             /\ last_gate' =
                  IF st.gates = 0 THEN last_gate
                  ELSE [kind   |-> "move",
                        rate   |-> cfg.mouse_move_hz,
                        before |-> st.prev,
                        after  |-> st.last,
                        slept  |-> st.slept,
                        nth    |-> Min(2, last_gate.seen["move"] + st.gates),
                        seen   |-> [last_gate.seen EXCEPT
                                      !["move"] = Min(2, @ + st.gates)]]
             /\ Returns("Move-Tool", st.repeats, FALSE)
             /\ UNCHANGED <<cfg, last_click, last_key>>

\* Move-Tool(to_loc)
MoveTool(to_loc, over) ==
    LET r  == CoerceXY(to_loc)
        st == MoveLoop(cfg, <<r.x, r.y>>, over,
                       [cur |-> cursor, now |-> now, last |-> last_move,
                        prev |-> last_move, slept |-> 0, gates |-> 0,
                        filter |-> last_filter, events |-> <<>>,
                        repeats |-> 0],
                       MoveCap)
    IN  IF ~r.ok
        THEN Fails("Move-Tool", r.err, TRUE) /\ UNCHANGED last_filter
        ELSE /\ now' = st.now
             /\ last_move' = st.last
             /\ cursor' = st.cur
             /\ events' = st.events
             /\ last_filter' = st.filter
             /\ last_gate' =
                  IF st.gates = 0 THEN last_gate
                  ELSE [kind   |-> "move",
                        rate   |-> cfg.mouse_move_hz,
                        before |-> st.prev,
                        after  |-> st.last,
                        slept  |-> st.slept,
                        nth    |-> Min(2, last_gate.seen["move"] + st.gates),
                        seen   |-> [last_gate.seen EXCEPT
                                      !["move"] = Min(2, @ + st.gates)]]
             /\ Returns("Move-Tool", st.repeats, FALSE)
             /\ UNCHANGED <<cfg, last_click, last_key>>

\* Drag-Tool(from_loc, to_loc)
DragTool(from_loc, to_loc) ==
    LET a == CoerceXY(from_loc)
        b == CoerceXY(to_loc)
    IN  IF ~a.ok THEN Fails("Drag-Tool", a.err, TRUE)
        ELSE IF ~b.ok THEN Fails("Drag-Tool", b.err, TRUE)
        ELSE /\ events' = <<Event("drag", <<a.x, a.y, b.x, b.y>>)>>
             /\ cursor' = Moved(<<b.x, b.y>>)
             /\ Returns("Drag-Tool", 0, FALSE)
             /\ UNCHANGED <<rateVars, last_gate>>

\* Scroll-Tool(loc, type, direction, wheel_times); type and direction are
\* handed to the backend as they are
ScrollTool(loc, wheel_times) ==
    LET r == CoerceXY(loc)
        n == Max(1, wheel_times)
    IN  IF loc.t = "none"
        THEN /\ events' = <<Event("scroll", <<n>>)>>
             /\ Returns("Scroll-Tool", 0, FALSE)
             /\ UNCHANGED <<rateVars, last_gate, cursor>>
        ELSE IF ~r.ok THEN Fails("Scroll-Tool", r.err, TRUE)
        ELSE /\ events' = <<Event("move", <<r.x, r.y>>),
                            Event("scroll", <<n>>)>>
             /\ cursor' = Moved(<<r.x, r.y>>)
             /\ Returns("Scroll-Tool", 0, FALSE)
             /\ UNCHANGED <<rateVars, last_gate>>

\* Windows-SetPos(hwnd, loc, size, z); z only selects flags of the call;
\* last_tool keeps the size that _coerce_wh was given, if it was reached
WindowsSetPos(hwnd, loc, size) ==
    LET target == ParseHwnd(hwnd)
        xy == IF loc.t = "none" THEN Ok(0, 0) ELSE CoerceXY(loc)
        wh == IF size.t = "none" THEN Ok(0, 0) ELSE CoerceWH(size)
        bad    == IF ~target.ok THEN "hwnd" ELSE IF ~xy.ok THEN "loc"
                  ELSE IF ~wh.ok THEN "size" ELSE "none"
        err    == CASE bad = "hwnd" -> target.err [] bad = "loc" -> xy.err
                    [] bad = "size" -> wh.err [] OTHER -> "returned"
    IN  /\ events' =
              IF bad # "none" THEN <<>>
              ELSE <<Event("SetWindowPos",
                           <<target.n, xy.x, xy.y, wh.x, wh.y>>),
                     Event("GetWindowRect", <<target.n>>)>>
        /\ last_tool' =
              [tool |-> "Windows-SetPos", outcome |-> err,
               bad_loc |-> IF bad = "hwnd" THEN ~xy.ok ELSE bad = "loc",
               stamps |-> Stamps, repeats |-> 0, bad |-> bad,
               size |-> IF bad \in {"hwnd", "loc"} THEN NoneE ELSE size]
        /\ UNCHANGED <<rateVars, last_gate, cursor>>

---------------------------------------------------------------------------
(* SpecTools: the pointer tools called one after another *)

\* the defaults; one pixel a step; one pixel a step, halved
ToolConfigs ==
    {DefaultConfig,
     [DefaultConfig EXCEPT !.mouse_max_delta = 1],
     [DefaultConfig EXCEPT !.mouse_max_delta = 1,
                           !.mouse_smooth = SmoothDen \div 2]}

\* [1,-MaxCoord], '2,1', {x: 0, y: MaxCoord}, (1.5, '2')
GoodLocs ==
    {ListE(<<IntE(1), IntE(-MaxCoord)>>),
     StrE(<<"2", ",", "1">>),
     DictE([x |-> IntE(0), y |-> IntE(MaxCoord)]),
     TupleE(<<FloatE(3), StrE(<<"2">>)>>)}

\* 'true', [1], ['true', 1], {x: 1}, {x: None, y: 1}, 1
BadLocs ==
    {StrE(<<"true">>),
     ListE(<<IntE(1)>>),
     ListE(<<StrE(<<"true">>), IntE(1)>>),
     DictE([x |-> IntE(1)]),
     DictE([x |-> NoneE, y |-> IntE(1)]),
     IntE(1)}

Locs == GoodLocs \cup BadLocs

\* the from_loc values of Drag-Tool: '2,1', [1,-MaxCoord], {x: None, y: 1}
DragFroms ==
    {StrE(<<"2", ",", "1">>),
     ListE(<<IntE(1), IntE(-MaxCoord)>>),
     DictE([x |-> NoneE, y |-> IntE(1)])}

\* the loc values of Windows-SetPos: None, '2,1', {x: 0, y: MaxCoord},
\* {x: None, y: 1}, 'true'
SetPosLocs ==
    {NoneE,
     StrE(<<"2", ",", "1">>),
     DictE([x |-> IntE(0), y |-> IntE(MaxCoord)]),
     DictE([x |-> NoneE, y |-> IntE(1)]),
     StrE(<<"true">>)}

\* 1, '12', '0x12', None
Hwnds ==
    {IntE(1), StrE(<<"1", "2">>), StrE(<<"0x", "1", "2">>), NoneE}

\* None, {w: 1, h: 2}, '2,1'
Sizes ==
    {NoneE, DictE([w |-> IntE(1), h |-> IntE(2)]), StrE(<<"2", ",", "1">>)}

InitTools ==
    /\ cfg \in ToolConfigs
    /\ now = 0
    /\ last_click = 0
    /\ last_key = 0
    /\ last_move = 0
    /\ last_gate = NoGate
    /\ last_filter = NoFilter
    /\ n_ops = 0
    /\ Serving
    /\ NoCoerce
    /\ cursor \in {<<0, 0>>, <<MaxCoord, -MaxCoord>>}
    /\ events = <<>>
    /\ last_tool = NoTool
    /\ last_send = NoSend
    /\ last_config = NoConfig
    /\ NoDesk

\* another tool call may be made
MoreCalls == n_ops < MaxToolCalls

\* what no pointer tool changes
ToolFrame ==
    /\ n_ops' = n_ops + 1
    /\ UNCHANGED <<bootVars, last_info, coerceVars, last_send, last_config,
                   deskVars>>

NextTools ==
    \/ /\ MoreCalls
       /\ \E loc \in Locs, clicks \in {0, 2}, over \in 0 .. MaxOversleep :
              ToolFrame /\ ClickTool(loc, clicks, over)
                  /\ UNCHANGED last_filter
    \/ /\ MoreCalls
       /\ \E loc \in Locs, over \in 0 .. MaxOversleep :
              ToolFrame /\ MoveTool(loc, over)
    \/ /\ MoreCalls
       /\ \E a \in DragFroms, b \in Locs :
              ToolFrame /\ DragTool(a, b) /\ UNCHANGED last_filter
    \/ /\ MoreCalls
       /\ \E loc \in Locs \cup {NoneE}, wheel_times \in {0, 2} :
              ToolFrame /\ ScrollTool(loc, wheel_times)
                  /\ UNCHANGED last_filter
    \/ /\ MoreCalls
       /\ \E hwnd \in Hwnds, loc \in SetPosLocs, size \in Sizes :
              ToolFrame /\ WindowsSetPos(hwnd, loc, size)
                  /\ UNCHANGED last_filter

SpecTools == InitTools /\ [][NextTools]_vars

\* C8: when a coordinate argument of Move-Tool, Click-Tool, Drag-Tool,
\* Scroll-Tool or Windows-SetPos is malformed, the tool fails with
\* ValueError before any backend call is made and before any timestamp of
\* the rate limiter is changed.
C8_MalformedFailsWithValueError ==
    last_tool.bad_loc =>
        /\ last_tool.outcome = "ValueError"
        /\ events = <<>>
        /\ Stamps = last_tool.stamps

\* the half of C8 that holds of every tool call: a call that ends with an
\* exception has made no backend call and changed no timestamp
NoEffectBeforeFailure ==
    last_tool.outcome \notin {"none", "returned"} =>
        /\ events = <<>>
        /\ Stamps = last_tool.stamps
        /\ last_tool.outcome \in {"ValueError", "TypeError"}

\* a malformed coordinate never lets the tool return
BadLocNeverReturns == last_tool.bad_loc => last_tool.outcome # "returned"

---------------------------------------------------------------------------
(* backend.py: IBSimulatorDLLBackend.send_text *)

\* the virtual-key codes of the modifiers
SHIFT == 16
CTRL == 17
ALT == 18

\* a character of the text: how many UTF-16 code units it takes, and what
\* VkKeyScanW returns for it (the virtual key in the low byte, the
\* modifier bits in the high byte, or -1)
Char(units, vkshort) == [units |-> units, vkshort |-> vkshort]
\* 'a'; 'A' (with shift); '@' on a layout that types it with ctrl+alt; a
\* character the layout cannot type; a character outside the basic plane
TextChars ==
    {Char(1, 65), Char(1, 256 + 65), Char(1, 6 * 256 + 50), Char(1, -1),
     Char(2, -1)}

KeyCall(fn, key) == [fn |-> fn, key |-> key, raised |-> FALSE]
If(b, calls) == IF b THEN calls ELSE <<>>

\* the try block for one character: the DLL calls it makes, in order
CharCalls(vkshort) ==
    LET vk   == vkshort % 256
        mods == (vkshort \div 256) % 256
        bit(k) == (mods \div k) % 2 = 1
    IN  If(bit(1), <<KeyCall("IbSendKeybdDown", SHIFT)>>)
            \o If(bit(2), <<KeyCall("IbSendKeybdDown", CTRL)>>)
            \o If(bit(4), <<KeyCall("IbSendKeybdDown", ALT)>>)
            \o <<KeyCall("IbSendKeybdDown", vk), KeyCall("IbSendKeybdUp", vk)>>
            \o If(bit(4), <<KeyCall("IbSendKeybdUp", ALT)>>)
            \o If(bit(2), <<KeyCall("IbSendKeybdUp", CTRL)>>)
            \o If(bit(1), <<KeyCall("IbSendKeybdUp", SHIFT)>>)

\* the calls made when the f-th of them raises (f = 0: none raises)
CallsUntil(calls, f) ==
    IF f = 0 \/ f > Len(calls) THEN calls
    ELSE SubSeq(calls, 1, f - 1) \o <<[calls[f] EXCEPT !.raised = TRUE]>>

\* the most DLL calls one character takes: the key and three modifiers,
\* each down and up
MaxCharCalls == 2 + 2 * 3

RECURSIVE SendLoop(_, _, _, _)
\* the loop of send_text from character i on.  VkKeyScanW takes a WCHAR:
\* ctypes refuses a character of two code units with ArgumentError, and
\* that call is outside the try block.  An exception of a DLL call is
\* caught and the loop goes on with the next character.
SendLoop(text, fails, i, acc) ==
    IF i > Len(text) THEN [acc EXCEPT !.outcome = "returned"]
    ELSE LET ch   == text[i]
             seen == [acc EXCEPT !.scanned = @ \o <<i>>]
         IN  IF ch.units # 1
             THEN [seen EXCEPT !.outcome = "ArgumentError"]
             ELSE IF ch.vkshort = -1
             THEN SendLoop(text, fails, i + 1, seen)
             ELSE SendLoop(text, fails, i + 1,
                     [seen EXCEPT
                        !.calls = @ \o CallsUntil(CharCalls(ch.vkshort),
                                                  fails[i])])

\* IBSimulatorDLLBackend.send_text(text); fails[i] says which DLL call
\* made for character i raises, 0 for none.  The call sleeps, so the
\* clock may have moved on when it ends.
SendText(text, fails, dt) ==
    /\ last_send' =
         IF ~dll_be.ready \/ text = <<>>
         THEN [called |-> TRUE, text |-> text, scanned |-> <<>>,
               calls |-> <<>>, outcome |-> "returned"]
         ELSE SendLoop(text, fails, 1,
                       [called |-> TRUE, text |-> text, scanned |-> <<>>,
                        calls |-> <<>>, outcome |-> "running"])
    /\ now' = now + dt
    /\ UNCHANGED <<cfg, last_click, last_key, last_move>>

---------------------------------------------------------------------------
(* SpecText: send_text on every text, with every DLL call failing or not *)

InitText ==
    /\ cfg = DefaultConfig
    /\ now = 0
    /\ last_click = 0
    /\ last_key = 0
    /\ last_move = 0
    /\ last_gate = NoGate
    /\ last_filter = NoFilter
    /\ n_ops = 0
    /\ Serving
    /\ NoCoerce
    /\ NoTools

\* a character together with the DLL call that raises while it is typed
\* (0: none does)
CharFails ==
    {cf \in TextChars \X (0 .. MaxCharCalls) :
        cf[2] <= IF cf[1].vkshort = -1 THEN 0
                 ELSE Len(CharCalls(cf[1].vkshort))}
Typings == UNION {[1 .. n -> CharFails] : n \in 0 .. MaxTextLen}

NextText ==
    /\ n_ops < 1
    /\ \E typing \in Typings, dt \in 0 .. 1 :
        /\ n_ops' = n_ops + 1
        /\ SendText([i \in DOMAIN typing |-> typing[i][1]],
                    [i \in DOMAIN typing |-> typing[i][2]], dt)
        /\ UNCHANGED <<bootVars, coerceVars, cursor, events, last_tool,
                       last_gate, last_filter, last_info, last_config,
                       deskVars>>

SpecText == InitText /\ [][NextText]_vars

\* a DLL call made for some character raised
SomeCallRaised ==
    \E k \in 1 .. Len(last_send.calls) : last_send.calls[k].raised

\* C10: a failure while one character is injected is suppressed: the loop
\* goes on with every following character of the text, in order, and
\* send_text returns without raising.
C10_EveryCharacterAttempted ==
    last_send.called /\ last_send.text # <<>> =>
        /\ last_send.outcome = "returned"
        /\ last_send.scanned = [i \in 1 .. Len(last_send.text) |-> i]

\* the part of C10 that holds: when every character of the text is a
\* single UTF-16 code unit, send_text returns and has looked up every
\* character in order, whichever DLL calls raised
SuppressedWithinBasicPlane ==
    /\ last_send.called
    /\ last_send.text # <<>>
    /\ \A i \in 1 .. Len(last_send.text) : last_send.text[i].units = 1
    => /\ last_send.outcome = "returned"
       /\ last_send.scanned = [i \in 1 .. Len(last_send.text) |-> i]

\* a DLL call raised for a character that is not the last, and the
\* characters after it were still looked up
SuppressedReached ==
    /\ SomeCallRaised
    /\ last_send.calls[1].raised
    /\ Len(last_send.text) = MaxTextLen
    /\ last_send.outcome = "returned"

---------------------------------------------------------------------------
(* backend.py: IBSimulatorDLLBackend.key_down / key_up; main.py: Combo-Tool *)

\* _vk_for_key and VkKeyScanW have no virtual key for the key
NoVk == -1

\* a key name: an identity, len(key), its length in UTF-16 code units, what
\* _vk_for_key returns for it and what VkKeyScanW returns for it
Key(id, len, units, vk, vkshort) ==
    [id |-> id, len |-> len, units |-> units, vk |-> vk,
     vkshort |-> vkshort]
\* 'shift'; 'a'; '@' (shift+2 on the layout); a character the layout
\* cannot type; 'foo'; a character outside the basic plane
KeyNames ==
    {Key(1, 5, 5, SHIFT, NoVk), Key(2, 1, 1, 65, 65),
     Key(3, 1, 1, NoVk, 256 + 50), Key(4, 1, 1, NoVk, -1),
     Key(5, 3, 3, NoVk, NoVk), Key(6, 1, 2, NoVk, NoVk)}

\* key_down(key) and key_up(key) up to the DLL call: the virtual key to
\* send, NoVk when the method returns without sending, or the exception
\* of VkKeyScanW, which takes one WCHAR
KeyLookup(key) ==
    IF ~dll_be.ready THEN [err |-> "none", vk |-> NoVk]
    ELSE IF key.vk # NoVk THEN [err |-> "none", vk |-> key.vk]
    ELSE IF key.len # 1 THEN [err |-> "none", vk |-> NoVk]
    ELSE IF key.units # 1 THEN [err |-> "ArgumentError", vk |-> NoVk]
    ELSE IF key.vkshort = -1 THEN [err |-> "none", vk |-> NoVk]
    ELSE [err |-> "none", vk |-> key.vkshort % 256]

\* backend.key_down(key) or backend.key_up(key), fn being "key_down" or
\* "key_up", after sent DLL calls of this tool call; the DLL call number
\* fail raises OSError (0: none does).  The events, and the exception.
KeyCallEvents(fn, key, sent, fail) ==
    LET l   == KeyLookup(key)
        dll == IF fn = "key_down" THEN "IbSendKeybdDown" ELSE "IbSendKeybdUp"
    IN  [events |-> <<Event(fn, <<key.id>>)>>
                      \o If(l.vk # NoVk, <<Event(dll, <<l.vk>>)>>),
         sent   |-> IF l.vk # NoVk THEN sent + 1 ELSE sent,
         err    |-> IF l.err # "none" THEN l.err
                    ELSE IF l.vk # NoVk /\ sent + 1 = fail THEN "OSError"
                    ELSE "none"]

\* time.sleep(max(0, int(hold_ms)) / 1000.0), in ticks
HoldTicks(hold_ms) == CeilDiv(Max(0, hold_ms) * TicksPerSec, 1000)

RECURSIVE ComboDown(_, _, _, _, _)
\* the first loop of combo_tool from key i on
ComboDown(keys, i, over, fail, st) ==
    IF i > Len(keys) \/ st.err # "none" THEN st
    ELSE LET t    == TimeUntil(cfg.keys_per_sec, st.last, st.now)
             wake == st.now + t + over
             call == KeyCallEvents("key_down", keys[i], st.sent, fail)
         IN  ComboDown(keys, i + 1, over, fail,
                 [now |-> wake, last |-> wake, prev |-> st.last,
                  slept |-> t, gates |-> Min(2, st.gates + 1),
                  sent |-> call.sent, err |-> call.err,
                  events |-> st.events
                      \o <<Event("sleep_until_ready:key", <<>>)>>
                      \o call.events])

RECURSIVE ComboUp(_, _, _, _)
\* the second loop of combo_tool, key i being the next to release
ComboUp(keys, i, fail, st) ==
    IF i < 1 \/ st.err # "none" THEN st
    ELSE LET call == KeyCallEvents("key_up", keys[i], st.sent, fail)
         IN  ComboUp(keys, i - 1, fail,
                 [st EXCEPT !.sent = call.sent, !.err = call.err,
                            !.events = @ \o call.events])

\* Combo-Tool(keys, hold_ms)
ComboTool(keys, hold_ms, over, fail) ==
    LET down == ComboDown(keys, 1, over, fail,
                    [now |-> now, last |-> last_key, prev |-> last_key,
                     slept |-> 0, gates |-> 0, sent |-> 0, err |-> "none",
                     events |-> <<>>])
        held == IF down.err # "none" THEN down
                ELSE [down EXCEPT !.now = @ + HoldTicks(hold_ms),
                                  !.events = @ \o <<Event("hold", <<>>)>>]
        st   == ComboUp(keys, Len(keys), fail, held)
    IN  IF keys = <<>>
        THEN Fails("Combo-Tool", "ValueError", FALSE)
        ELSE /\ now' = st.now
             /\ last_key' = st.last
             /\ events' = st.events
             /\ last_gate' =
                  [kind   |-> "key",
                   rate   |-> cfg.keys_per_sec,
                   before |-> st.prev,
                   after  |-> st.last,
                   slept  |-> st.slept,
                   nth    |-> Min(2, last_gate.seen["key"] + st.gates),
                   seen   |-> [last_gate.seen EXCEPT
                                 !["key"] = Min(2, @ + st.gates)]]
             /\ last_tool' =
                  [tool |-> "Combo-Tool",
                   outcome |-> IF st.err = "none" THEN "returned"
                               ELSE st.err,
                   bad_loc |-> FALSE, stamps |-> Stamps, repeats |-> 0]
             /\ UNCHANGED <<cfg, last_click, last_move, cursor>>

---------------------------------------------------------------------------
(* main.py: Type-Tool *)

\* the Win32 calls of _set_clipboard_text, in order
ClipboardCalls ==
    <<"OpenClipboard", "EmptyClipboard", "GlobalAlloc", "GlobalLock",
      "SetClipboardData">>

\* a text as the clipboard holds it: the characters' identities
TextOf(text) == [i \in DOMAIN text |-> text[i].id]

\* _set_clipboard_text(text), clip being the call of ClipboardCalls that
\* returns 0 ("none": they all succeed): what it returns and what the
\* clipboard holds afterwards, a failure after EmptyClipboard succeeded
\* leaving it empty
SetClipboardText(text, clip) ==
    IF clip = "none" THEN [ok |-> TRUE, clipboard |-> TextOf(text)]
    ELSE IF clip \in {"OpenClipboard", "EmptyClipboard"}
    THEN [ok |-> FALSE, clipboard |-> clipboard]
    ELSE [ok |-> FALSE, clipboard |-> <<>>]

\* rate.sleep_until_ready('key') within a tool call whose state is st
KeyGate(st, over) ==
    LET t    == TimeUntil(cfg.keys_per_sec, st.last, st.now)
        wake == st.now + t + over
    IN  [st EXCEPT !.now = wake, !.last = wake, !.prev = st.last,
                   !.slept = t, !.gates = Min(2, @ + 1),
                   !.events = @ \o <<Event("sleep_until_ready:key", <<>>)>>]

\* backend.hotkey(combo) within a tool call
Hotkey(st, combo) ==
    [st EXCEPT !.events = @ \o <<Event("hotkey", <<combo>>)>>]

TypeClipboardBug(text, clip, over, st) ==
    LET set == SetClipboardText(text, clip)
        g   == KeyGate(st, over)
    IN  IF ~set.ok THEN [g EXCEPT !.err = "RuntimeError"]
        ELSE Hotkey(g, "ctrl+v")

\* the branch m == 'clipboard' of type_tool
TypeClipboard(text, clip, over, st) ==
    LET set == SetClipboardText(text, clip)
    IN  IF ~set.ok THEN [st EXCEPT !.err = "RuntimeError"]
        ELSE Hotkey(KeyGate(st, over), "ctrl+v")

RECURSIVE TypeVk(_, _, _, _, _)
\* the branch m == 'vk' of type_tool from character i on
TypeVk(text, i, over, fail, st) ==
    IF i > Len(text) \/ st.err # "none" THEN st
    ELSE LET g    == KeyGate(st, over)
             down == KeyCallEvents("key_down", text[i], g.sent, fail)
             up   == KeyCallEvents("key_up", text[i], down.sent, fail)
         IN  TypeVk(text, i + 1, over, fail,
                 IF down.err # "none"
                 THEN [g EXCEPT !.sent = down.sent, !.err = down.err,
                                !.events = @ \o down.events]
                 ELSE [g EXCEPT !.sent = up.sent, !.err = up.err,
                                !.events = @ \o down.events \o up.events])

\* the default branch of type_tool; backend.send_text raises when the
\* call number fail is its first DLL call
TypeUnicode(text, over, fail, st) ==
    LET g == KeyGate(st, over)
    IN  [g EXCEPT !.events = @ \o <<Event("send_text", TextOf(text))>>,
                  !.err = IF fail = 1 /\ text # <<>> /\ dll_be.ready
                          THEN "OSError" ELSE "none"]

\* Type-Tool(text, method, press_enter); is_str: text is a str
TypeTool(is_str, text, method, press_enter, clip, over, fail) ==
    LET st0  == [now |-> now, last |-> last_key, prev |-> last_key,
                 slept |-> 0, gates |-> 0, sent |-> 0, err |-> "none",
                 events |-> <<>>]
        body == CASE method = "clipboard" ->
                       TypeClipboard(text, clip, over, st0)
                  [] method = "vk" -> TypeVk(text, 1, over, fail, st0)
                  [] OTHER -> TypeUnicode(text, over, fail, st0)
        st   == IF press_enter /\ body.err = "none"
                THEN Hotkey(KeyGate(body, over), "enter")
                ELSE body
        info == [tool |-> "Type-Tool", outcome |-> "none", bad_loc |-> FALSE, stamps |-> Stamps,
                 repeats |-> 0, is_str |-> is_str, text |-> TextOf(text),
                 method |-> method, press_enter |-> press_enter,
                 clip |-> clip, clipboard |-> clipboard]
    IN  IF ~is_str
        THEN /\ last_tool' = [info EXCEPT !.outcome = "ValueError"]
             /\ events' = <<>>
             /\ UNCHANGED <<rateVars, cursor, last_gate, clipboard>>
        ELSE /\ now' = st.now
             /\ last_key' = st.last
             /\ events' = st.events
             /\ clipboard' = IF method = "clipboard"
                             THEN SetClipboardText(text, clip).clipboard
                             ELSE clipboard
             /\ last_gate' =
                  IF st.gates = 0 THEN last_gate
                  ELSE [kind   |-> "key",
                        rate   |-> cfg.keys_per_sec,
                        before |-> st.prev,
                        after  |-> st.last,
                        slept  |-> st.slept,
                        nth    |-> Min(2, last_gate.seen["key"] + st.gates),
                        seen   |-> [last_gate.seen EXCEPT
                                      !["key"] = Min(2, @ + st.gates)]]
             /\ last_tool' =
                  [info EXCEPT !.outcome = IF st.err = "none" THEN "returned"
                                           ELSE st.err]
             /\ UNCHANGED <<cfg, last_click, last_move, cursor>>

---------------------------------------------------------------------------
(* SpecKeys: the keyboard tools, one call on every argument *)

KeyLists == UNION {[1 .. n -> KeyNames] : n \in 0 .. MaxKeys}
\* the texts typed: characters, so key names of length 1
Typed ==
    UNION {[1 .. n -> {k \in KeyNames : k.len = 1}] : n \in 0 .. MaxTyped}

InitKeys ==
    /\ cfg = DefaultConfig
    /\ now \in {0, 1}
    /\ last_click = 0
    /\ last_key = 0
    /\ last_move = 0
    /\ last_gate = NoGate
    /\ last_filter = NoFilter
    /\ n_ops = 0
    /\ Serving
    /\ NoCoerce
    /\ NoTools

\* what no keyboard tool changes
KeysFrame ==
    /\ n_ops' = n_ops + 1
    /\ UNCHANGED <<bootVars, last_info, coerceVars, last_send, last_filter,
                   last_config, windows, last_enum>>

NextKeys ==
    \/ /\ n_ops < 1
       /\ \E keys \in KeyLists, hold_ms \in {-5, 300},
             over \in 0 .. MaxOversleep, fail \in 0 .. 2 * MaxKeys :
              /\ KeysFrame
              /\ ComboTool(keys, hold_ms, over, fail)
              /\ UNCHANGED clipboard
    \/ /\ n_ops < 1
       /\ \E is_str \in BOOLEAN, text \in Typed,
             method \in {"unicode", "clipboard", "vk"},
             press_enter \in BOOLEAN,
             clip \in {"none"} \cup Range(ClipboardCalls),
             over \in 0 .. MaxOversleep, fail \in 0 .. 2 :
              /\ is_str \/ text = <<>>
              /\ method # "clipboard" => clip = "none"
              /\ KeysFrame
              /\ TypeTool(is_str, text, method, press_enter, clip, over,
                          fail)

SpecKeys == InitKeys /\ [][NextKeys]_vars

\* the keys of the events of one operation, in order
KeysOf(op) ==
    LET sel == SelectSeq(events, LAMBDA e : e.op = op)
    IN  [i \in 1 .. Len(sel) |-> sel[i].args[1]]

Reverse(q) == [i \in 1 .. Len(q) |-> q[Len(q) + 1 - i]]

\* every key_down comes right after a key gate, and every key_up after
\* the hold, which comes after every key_down
ComboOrder ==
    /\ \A i \in 1 .. Len(events) :
           events[i].op = "key_down" =>
               i > 1 /\ events[i - 1].op = "sleep_until_ready:key"
    /\ \E h \in 1 .. Len(events) :
           /\ events[h].op = "hold"
           /\ \A i \in 1 .. Len(events) :
                  /\ events[i].op = "key_down" => i < h
                  /\ events[i].op = "key_up" => i > h

\* C11: Combo-Tool with keys k1..kn calls backend.key_down for k1..kn in
\* that order, each after a key gate, and after the hold calls
\* backend.key_up for kn..k1, so that every key_down has its key_up.
C11_EveryKeyReleased ==
    last_tool.tool = "Combo-Tool" /\ last_tool.outcome # "ValueError" =>
        /\ KeysOf("key_up") = Reverse(KeysOf("key_down"))
        /\ Len(KeysOf("key_down")) >= 1
        /\ ComboOrder

\* the part of C11 that holds: a Combo-Tool call in which no backend call
\* raises presses in order, each press after a key gate, holds, and
\* releases in the reverse order
ComboNestedWhenNothingRaises ==
    last_tool.tool = "Combo-Tool" /\ last_tool.outcome = "returned" =>
        /\ KeysOf("key_up") = Reverse(KeysOf("key_down"))
        /\ Len(KeysOf("key_down")) >= 1
        /\ ComboOrder

\* a Combo-Tool call on MaxKeys keys has returned
ComboReturned ==
    /\ last_tool.tool = "Combo-Tool"
    /\ last_tool.outcome = "returned"
    /\ Len(KeysOf("key_down")) = MaxKeys

---------------------------------------------------------------------------
(* SpecConfig: Input-RateLimiter-Config, one call on every argument from  *)
(* configurations the environment or an earlier call can have left        *)

\* the defaults; what WINDOWS_MCP_RATE_* can set, which main.py does not
\* clamp; configurations an earlier call has clamped
PriorConfigs ==
    {DefaultConfig,
     [mouse_move_hz |-> -RatePerHz, mouse_max_delta |-> 0,
      mouse_smooth |-> 3 * SmoothDen, clicks_per_sec |-> 0,
      keys_per_sec |-> 1000 * RatePerHz],
     [mouse_move_hz |-> 1000 * RatePerHz, mouse_max_delta |-> -5,
      mouse_smooth |-> -SmoothDen, clicks_per_sec |-> 1,
      keys_per_sec |-> -RatePerHz],
     [mouse_move_hz |-> MoveHzMin * RatePerHz, mouse_max_delta |-> 1,
      mouse_smooth |-> SmoothMax, clicks_per_sec |-> RateMax * RatePerHz,
      keys_per_sec |-> RateMin * RatePerHz]}

\* None, a value float() refuses, nan, -1, 0, 30, 1000
RateArgs ==
    {NoneVal, BadVal, NaNVal, NumVal(-RatePerHz), NumVal(0),
     NumVal(30 * RatePerHz), NumVal(1000 * RatePerHz)}
\* None, a value int() refuses, nan, -1, 0, 5
MaxDeltaArgs == {NoneVal, BadVal, NaNVal, NumVal(-1), NumVal(0), NumVal(5)}
\* None, a value float() refuses, nan, -0.25, 0.5, 3
SmoothArgs ==
    {NoneVal, BadVal, NaNVal, NumVal(-(SmoothDen \div 4)),
     NumVal(SmoothDen \div 2), NumVal(3 * SmoothDen)}

InitConfig ==
    /\ cfg \in PriorConfigs
    /\ now = 0
    /\ last_click = 0
    /\ last_key = 0
    /\ last_move = 0
    /\ last_gate = NoGate
    /\ last_filter = NoFilter
    /\ n_ops = 0
    /\ Serving
    /\ NoCoerce
    /\ cursor = <<0, 0>>
    /\ events = <<>>
    /\ last_tool = NoTool
    /\ last_send = NoSend
    /\ last_config = NoConfig
    /\ NoDesk

\* a call of Input-RateLimiter-Config
Configure ==
    /\ n_ops < 1
    /\ \E move_hz \in RateArgs, max_delta \in MaxDeltaArgs,
          smooth \in SmoothArgs, cps \in RateArgs,
          kps \in {NoneVal, BadVal, NumVal(0), NumVal(1000 * RatePerHz)} :
         /\ RateConfig(move_hz, max_delta, smooth, cps, kps)
         /\ last_config' = [called |-> TRUE, before |-> <<cfg>>,
                            move_hz |-> move_hz, max_delta |-> max_delta,
                            smooth |-> smooth, cps |-> cps, kps |-> kps]
    /\ n_ops' = n_ops + 1
    /\ UNCHANGED <<bootVars, last_info, coerceVars, cursor, events,
                   last_tool, last_send, last_gate, last_filter, deskVars>>

NextConfig == Configure

SpecConfig == InitConfig /\ [][NextConfig]_vars

\* the field of the configuration is what clamping the value it had
\* before the call to lo..hi gives
Kept(field, lo, hi) ==
    cfg[field] = Max(lo, Min(hi, last_config.before[1][field]))

\* C12: after any call of Input-RateLimiter-Config, whatever the
\* arguments and the configuration before it, 15 <= mouse_move_hz <= 480,
\* mouse_max_delta >= 1, 0 <= mouse_smooth <= 0.98, 1 <= clicks_per_sec
\* <= 60 and 1 <= keys_per_sec <= 60; an argument that cannot be cast to
\* a number does not raise and leaves the value the field had (clamped).
C12_ConfigWithinBounds ==
    last_config.called =>
        /\ cfg.mouse_move_hz >= MoveHzMin * RatePerHz
        /\ cfg.mouse_move_hz <= MoveHzMax * RatePerHz
        /\ cfg.mouse_max_delta >= MaxDeltaMin
        /\ cfg.mouse_smooth >= 0
        /\ cfg.mouse_smooth <= SmoothMax
        /\ cfg.clicks_per_sec >= RateMin * RatePerHz
        /\ cfg.clicks_per_sec <= RateMax * RatePerHz
        /\ cfg.keys_per_sec >= RateMin * RatePerHz
        /\ cfg.keys_per_sec <= RateMax * RatePerHz
        /\ last_config.move_hz = BadVal =>
               Kept("mouse_move_hz", MoveHzMin * RatePerHz,
                    MoveHzMax * RatePerHz)
        /\ last_config.max_delta = BadVal =>
               cfg.mouse_max_delta =
                   Max(MaxDeltaMin, last_config.before[1].mouse_max_delta)
        /\ last_config.smooth = BadVal => Kept("mouse_smooth", 0, SmoothMax)
        /\ last_config.cps = BadVal =>
               Kept("clicks_per_sec", RateMin * RatePerHz,
                    RateMax * RatePerHz)
        /\ last_config.kps = BadVal =>
               Kept("keys_per_sec", RateMin * RatePerHz,
                    RateMax * RatePerHz)

\* a call with out-of-range numbers, an uncastable smooth and a nan, made
\* on a configuration the environment left out of range
C12_Witness ==
    /\ last_config.called
    /\ last_config.before[1].mouse_max_delta = 0
    /\ last_config.move_hz = NumVal(1000 * RatePerHz)
    /\ last_config.max_delta = NumVal(-1)
    /\ last_config.smooth = BadVal
    /\ last_config.cps = NaNVal
    /\ cfg.mouse_move_hz = MoveHzMax * RatePerHz
    /\ cfg.mouse_smooth = SmoothMax

---------------------------------------------------------------------------
(* Move-Tool: the claims *)

IsMoveGate(e) == e.op = "sleep_until_ready:move"

\* the iterations of the loop the last Move-Tool call ran: those listed
\* in events and those counted in repeats
MoveSteps ==
    Len(SelectSeq(events, IsMoveGate)) + last_tool.repeats

\* C13: Move-Tool ends after at most 3000 steps of its loop, and in each
\* step backend.move comes after one sleep_until_ready('move'): a move
\* follows the gate of its step, or is the last call, the snap onto the
\* target, following the move of the last step.
C13_AtMostCapGatedSteps ==
    last_tool.tool = "Move-Tool" /\ last_tool.outcome = "returned" =>
        /\ MoveSteps <= MoveCap
        /\ \A i \in 1 .. Len(events) :
               /\ IsMoveGate(events[i]) =>
                      i < Len(events) /\ events[i + 1].op = "move"
               /\ events[i].op = "move" =>
                      \/ i > 1 /\ IsMoveGate(events[i - 1])
                      \/ /\ i = Len(events)
                         /\ i > 2
                         /\ events[i - 1].op = "move"
                         /\ IsMoveGate(events[i - 2])

\* a Move-Tool call whose steps made no progress has run all 3000 steps
\* and returned
C13_Witness ==
    /\ last_tool.tool = "Move-Tool"
    /\ last_tool.outcome = "returned"
    /\ MoveSteps = MoveCap
    /\ Len(events) = 2

---------------------------------------------------------------------------
(* main.py: Windows-List and Windows-Select *)

\* the most windows the desktop has
MaxWindows == 3

\* a window as _enum_proc reads it: its handle, IsWindowVisible, IsIconic,
\* the DWM cloaked attribute, its title, its class name and its pid as
\* str() writes it, the three as sequences of characters
Window(hwnd, visible, minimized, cloaked, title, class, pid) ==
    [hwnd |-> hwnd, visible |-> visible, minimized |-> minimized,
     cloaked |-> cloaked, title |-> title, class |-> class, pid |-> pid]

\* str.lower() of one character and of a string
LowerChar(c) == IF c = "N" THEN "n" ELSE IF c = "C" THEN "c" ELSE c
LowerStr(s) == [i \in DOMAIN s |-> LowerChar(s[i])]

\* sub in s, for strings
Contains(sub, s) ==
    \E i \in 0 .. Len(s) - Len(sub) : SubSeq(s, i + 1, i + Len(sub)) = sub

\* (query or '').strip().lower(), query being None or a string
QueryOf(query) ==
    IF query.t = "none" THEN <<>> ELSE LowerStr(Strip(query.s))

\* the filters of _enum_proc: the window is appended to results
PassesBug(w, only_visible, include_minimized, include_cloaked, query) ==
    LET q == QueryOf(query)
    IN  /\ ~(only_visible /\ ~w.visible)
        /\ ~(w.minimized /\ ~include_minimized)
        /\ q # <<>> =>
             \/ Contains(q, LowerStr(w.title))
             \/ Contains(q, LowerStr(w.class))
             \/ Contains(q, w.pid)
Passes(w, only_visible, include_minimized, include_cloaked, query) ==
    LET q == QueryOf(query)
    IN  /\ ~(only_visible /\ ~w.visible)
        /\ ~(w.minimized /\ ~include_minimized)
        /\ ~(w.cloaked /\ ~include_cloaked)
        /\ q # <<>> =>
             \/ Contains(q, LowerStr(w.title))
             \/ Contains(q, LowerStr(w.class))
             \/ Contains(q, w.pid)

RECURSIVE Enumerate(_, _, _, _, _, _, _)
\* EnumWindows(_enum_proc, 0) from window i on: the callback is called on
\* each window in order until it returns False, which it does once limit
\* is an int and results has that many items or more; int(limit) raising
\* is swallowed after the append.  The results, and the windows seen.
Enumerate(i, only_visible, include_minimized, include_cloaked, query, limit, results) ==
    IF i > Len(windows) THEN [results |-> results, seen |-> i - 1]
    ELSE IF ~Passes(windows[i], only_visible, include_minimized,
                    include_cloaked, query)
    THEN Enumerate(i + 1, only_visible, include_minimized, include_cloaked,
                   query, limit, results)
    ELSE LET r == Append(results, windows[i])
         IN  IF limit.t = "num" /\ Len(r) >= limit.v
             THEN [results |-> r, seen |-> i]
             ELSE Enumerate(i + 1, only_visible, include_minimized,
                            include_cloaked, query, limit, r)

\* Windows-List(query, only_visible, include_minimized, include_cloaked,
\* limit): one line per item of results
WindowsList(query, only_visible, include_minimized, include_cloaked, limit) ==
    LET e == Enumerate(1, only_visible, include_minimized, include_cloaked,
                       query, limit, <<>>)
    IN  last_enum' =
          [tool |-> "Windows-List", query |-> query,
           only_visible |-> only_visible,
           include_minimized |-> include_minimized,
           include_cloaked |-> include_cloaked,
           limit |-> limit, index |-> NoneVal,
           results |-> e.results, seen |-> e.seen,
           outcome |-> IF e.results = <<>> THEN "(no windows matched)"
                       ELSE "listed"]

\* Windows-Select(query, only_visible, include_minimized, include_cloaked,
\* index): results holds the window selected
WindowsSelect(query, only_visible, include_minimized, include_cloaked, index) ==
    LET e == Enumerate(1, only_visible, include_minimized, include_cloaked,
                       query, NoneVal, <<>>)
        n == Len(e.results)
        out ==
          IF n = 0 THEN [outcome |-> "No windows matched.", sel |-> <<>>]
          ELSE IF index.t = "none"
          THEN [outcome |-> "Selected", sel |-> <<e.results[1]>>]
          ELSE IF index.t # "num"
          THEN [outcome |-> "ValueError", sel |-> <<>>]
          ELSE IF index.v < 0 \/ index.v >= n
          THEN [outcome |-> "Index out of range", sel |-> <<>>]
          ELSE [outcome |-> "Selected", sel |-> <<e.results[index.v + 1]>>]
    IN  last_enum' =
          [tool |-> "Windows-Select", query |-> query,
           only_visible |-> only_visible,
           include_minimized |-> include_minimized,
           include_cloaked |-> include_cloaked,
           limit |-> NoneVal, index |-> index,
           results |-> out.sel, seen |-> e.seen,
           outcome |-> out.outcome]

---------------------------------------------------------------------------
(* SpecWindows: one Windows-* call on every desktop *)

\* a shown window, a hidden one, a minimized one and a cloaked one
WindowKinds ==
    {Window(0, TRUE, FALSE, FALSE, <<"N", "c">>, <<"C">>, <<"1">>),
     Window(0, FALSE, FALSE, FALSE, <<"c">>, <<"n">>, <<"2">>),
     Window(0, TRUE, TRUE, FALSE, <<"n">>, <<"x">>, <<"1", "2">>),
     Window(0, TRUE, FALSE, TRUE, <<>>, <<"c">>, <<"2">>)}
Desktops ==
    UNION {{[i \in 1 .. n |-> [ks[i] EXCEPT !.hwnd = i]] :
              ks \in [1 .. n -> WindowKinds]} : n \in 0 .. MaxWindows}
Queries ==
    {NoneE, StrE(<<>>), StrE(<<" ">>), StrE(<<" ", "N">>), StrE(<<"c">>),
     StrE(<<"2">>)}

InitWindows ==
    /\ cfg = DefaultConfig
    /\ now = 0
    /\ last_click = 0
    /\ last_key = 0
    /\ last_move = 0
    /\ last_gate = NoGate
    /\ last_filter = NoFilter
    /\ n_ops = 0
    /\ Serving
    /\ NoCoerce
    /\ cursor = <<0, 0>>
    /\ events = <<>>
    /\ last_tool = NoTool
    /\ last_send = NoSend
    /\ last_config = NoConfig
    /\ windows \in Desktops
    /\ last_enum = NoEnum
    /\ clipboard = <<>>

\* what no Windows-* tool changes
WindowsFrame ==
    /\ n_ops' = n_ops + 1
    /\ UNCHANGED <<rateVars, bootVars, coerceVars, cursor, events, last_tool,
                   last_send, last_config, last_gate, last_filter,
                   last_info, windows, clipboard>>

NextWindows ==
    \/ /\ n_ops < 1
       /\ \E query \in Queries, only_visible \in BOOLEAN,
             include_minimized \in BOOLEAN, include_cloaked \in BOOLEAN,
             limit \in {NoneVal, BadVal, NumVal(-1), NumVal(0), NumVal(1),
                        NumVal(2)} :
              /\ WindowsFrame
              /\ WindowsList(query, only_visible, include_minimized,
                             include_cloaked, limit)
    \/ /\ n_ops < 1
       /\ \E query \in Queries, only_visible \in BOOLEAN,
             include_minimized \in BOOLEAN, include_cloaked \in BOOLEAN,
             index \in {NoneVal, BadVal, NumVal(-1), NumVal(0), NumVal(1),
                        NumVal(MaxWindows)} :
              /\ WindowsFrame
              /\ WindowsSelect(query, only_visible, include_minimized,
                               include_cloaked, index)

SpecWindows == InitWindows /\ [][NextWindows]_vars

---------------------------------------------------------------------------
(* Windows-Select and Windows-List: what a call returns *)

\* the window passes the filters of the most recent Windows-* call: it is
\* visible unless only_visible is off, not minimized unless
\* include_minimized, not cloaked unless include_cloaked, and the query,
\* stripped and lower-cased, is empty or occurs in its title, its class
\* name or its pid
Counted(w) ==
    LET q == QueryOf(last_enum.query)
    IN  /\ last_enum.only_visible => w.visible
        /\ w.minimized => last_enum.include_minimized
        /\ w.cloaked => last_enum.include_cloaked
        /\ \/ q = <<>>
           \/ Contains(q, LowerStr(w.title))
           \/ Contains(q, LowerStr(w.class))
           \/ Contains(q, w.pid)

\* the filtered enumeration of the most recent Windows-* call
Filtered == SelectSeq(windows, Counted)

\* C14: Windows-Select reports 'No windows matched.' when the filtered
\* enumeration is empty; otherwise it returns the window at position
\* index of the filtered enumeration when index is within 0..len-1, the
\* first match when index is omitted, and reports 'Index out of range'
\* without selecting when index is outside that range.
C14_SelectByIndex ==
    last_enum.tool = "Windows-Select" =>
        LET n == Len(Filtered)
            i == last_enum.index
        IN  /\ n = 0 => /\ last_enum.outcome = "No windows matched."
                        /\ last_enum.results = <<>>
            /\ n > 0 /\ i.t = "none" =>
                 /\ last_enum.outcome = "Selected"
                 /\ last_enum.results = <<Filtered[1]>>
            /\ n > 0 /\ i.t = "num" /\ i.v \in 0 .. n - 1 =>
                 /\ last_enum.outcome = "Selected"
                 /\ last_enum.results = <<Filtered[i.v + 1]>>
            /\ n > 0 /\ i.t = "num" /\ i.v \notin 0 .. n - 1 =>
                 /\ last_enum.outcome = "Index out of range"
                 /\ last_enum.results = <<>>

\* an index past the first selects a window that is not the first of the
\* desktop, windows before it having been filtered out
C14_Witness ==
    /\ last_enum.tool = "Windows-Select"
    /\ last_enum.index = NumVal(1)
    /\ last_enum.outcome = "Selected"
    /\ Len(windows) = MaxWindows
    /\ last_enum.results = <<windows[MaxWindows]>>
    /\ Len(Filtered) = 2

\* C15: Windows-List with a limit (an int, 0 or more) returns at most
\* limit windows.
C15_AtMostLimit ==
    last_enum.tool = "Windows-List" /\ last_enum.limit.t = "num"
      /\ last_enum.limit.v >= 0 =>
        Len(last_enum.results) <= last_enum.limit.v

\* with a limit of 1 or more, Windows-List returns the first limit windows
\* of the filtered enumeration (all of them when there are fewer), and the
\* enumeration stops at the window that brought the count to limit
ListStopsAtLimit ==
    last_enum.tool = "Windows-List" /\ last_enum.limit.t = "num"
      /\ last_enum.limit.v >= 1 =>
        LET k == Min(last_enum.limit.v, Len(Filtered))
        IN  /\ last_enum.results = SubSeq(Filtered, 1, k)
            /\ Len(Filtered) >= last_enum.limit.v =>
                 /\ last_enum.seen >= 1
                 /\ windows[last_enum.seen] = Filtered[k]
            /\ Len(Filtered) < last_enum.limit.v =>
                 last_enum.seen = Len(windows)

\* without a limit Windows-List returns the whole filtered enumeration
ListUnlimited ==
    last_enum.tool = "Windows-List" /\ last_enum.limit.t # "num" =>
        last_enum.results = Filtered /\ last_enum.seen = Len(windows)

\* a limit of 1 stopped the enumeration before its end
ListStopped ==
    /\ last_enum.tool = "Windows-List"
    /\ last_enum.limit = NumVal(1)
    /\ last_enum.seen < Len(windows)
    /\ Len(Filtered) > 1

---------------------------------------------------------------------------
(* Type-Tool: the clipboard method *)

ClipboardPasted ==
    /\ last_tool.tool = "Type-Tool"
    /\ last_tool.method = "clipboard"
    /\ last_tool.outcome = "returned"
    /\ Len(clipboard) = MaxTyped
    /\ Len(events) = 4

---------------------------------------------------------------------------
(* sleep_until_ready, step by step (SpecRate) *)

\* this step is a sleep_until_ready call of one of the three kinds
Gated == last_gate' # last_gate /\ last_gate'.kind \in Kinds

\* the stamp of a kind after the step
StampAfter(kind) ==
    CASE kind = "click" -> last_click'
      [] kind = "key"   -> last_key'
      [] OTHER          -> last_move'

\* the step stamps the kind of its call with the clock as the call leaves
\* it, and no other kind
StampsItsKind ==
    /\ StampAfter(last_gate'.kind) = now'
    /\ \A k \in Kinds \ {last_gate'.kind} : StampAfter(k) = LastOf(k)

\* C17 as stated: sleep_until_ready(kind) sleeps for exactly
\* max(0, 1/rate - elapsed), elapsed being the time since the last stamp
\* of the kind, and then stamps the kind with the current time (1/rate is
\* meaningful for rate > 0).
C17_SleepsDeficitOfRate ==
    [][Gated /\ last_gate'.rate > 0 =>
         /\ last_gate'.slept =
              Max(0, CeilDiv(TicksPerSec * RatePerHz, last_gate'.rate)
                       - (now - LastOf(last_gate'.kind)))
         /\ now' >= now + last_gate'.slept
         /\ StampsItsKind]_vars

\* C17 (amended): sleep_until_ready(kind) computes the time elapsed since
\* the last stamp of the kind, asks time.sleep for exactly
\* max(0, 1/max(rate, 0.001) - elapsed) (no sleep call when that is 0),
\* and then stamps the kind with the clock read after the sleep, whether
\* or not it slept.
C17_SleepsDeficitOfFlooredRate ==
    [][Gated =>
         /\ last_gate'.slept =
              Max(0, CeilDiv(TicksPerSec * RatePerHz,
                             Max(last_gate'.rate, MinRate))
                       - (now - LastOf(last_gate'.kind)))
         /\ now' >= now + last_gate'.slept
         /\ StampsItsKind]_vars

\* a call that did not sleep, the deficit being 0, and stamped
C17_Witness ==
    /\ last_gate.kind # "none"
    /\ last_gate.slept = 0
    /\ last_gate.after > last_gate.before
    /\ LastOf(last_gate.kind) = last_gate.after
    /\ now = last_gate.after

\* 1 / 0.001 seconds
ThousandSeconds == CeilDiv(TicksPerSec * RatePerHz, MinRate)

\* C18: with a configured rate of 0 or less, time_until_* and
\* sleep_until_ready do not fail: the rate is treated as 0.001 per second,
\* so the wait is 1000 s less the time elapsed since the last stamp,
\* never negative and never more than 1000 s, and the call stamps.
C18_NonPositiveRateWaits ==
    [][Gated /\ last_gate'.rate <= 0 =>
         /\ last_gate'.slept =
              Max(0, ThousandSeconds - (now - LastOf(last_gate'.kind)))
         /\ last_gate'.slept \in 0 .. ThousandSeconds
         /\ StampsItsKind]_vars

\* a call under a rate of 0 or less that waited the full 1000 s
C18_Witness ==
    /\ last_gate.kind # "none"
    /\ last_gate.rate <= 0
    /\ last_gate.slept = ThousandSeconds
    /\ last_gate.after >= last_gate.before + ThousandSeconds

---------------------------------------------------------------------------
(* Move-Tool: where it leaves the cursor (SpecTools) *)

\* the last call was a Move-Tool call that ran its loop and returned
\* 'Moved to (tx,ty).', on a backend that is ready
MoveReturned ==
    /\ last_tool.tool = "Move-Tool"
    /\ last_tool.outcome = "returned"
    /\ events # <<>>
    /\ BackendInfo.ready

\* C19: under every configuration Input-RateLimiter-Config can produce
\* (mouse_max_delta >= 1, mouse_smooth in [0, 0.98]) and on a backend
\* whose move places the cursor at the requested point, the cursor is at
\* the target (tx, ty) when Move-Tool returns 'Moved to (tx,ty).'.
C19_MoveReachesTarget ==
    MoveReturned /\ cfg.mouse_max_delta >= MaxDeltaMin
      /\ cfg.mouse_smooth \in 0 .. SmoothMax =>
        cursor = last_filter.target

\* without smoothing the cursor is at the target when Move-Tool returns
MoveReachesTargetUnsmoothed ==
    MoveReturned /\ cfg.mouse_max_delta >= MaxDeltaMin
      /\ cfg.mouse_smooth = 0 =>
        cursor = last_filter.target /\ MoveSteps <= 2 * MaxCoord

\* with smoothing on, Move-Tool never ends at a target it was not at: the
\* last pixel of every axis is smoothed to a step of 0
MoveStallsSmoothed ==
    MoveReturned /\ cfg.mouse_max_delta >= MaxDeltaMin
      /\ cfg.mouse_smooth \in 1 .. SmoothMax =>
        cursor # last_filter.target /\ MoveSteps = MoveCap

\* Move-Tool took several steps and arrived
MoveArrived ==
    /\ MoveReturned
    /\ MoveSteps = 2 * MaxCoord
    /\ cursor = last_filter.target

---------------------------------------------------------------------------
(* filter_target: the step stays on the way to the target (SpecFilter) *)

\* x lies between a and b, inclusive
Between(a, x, b) == (a <= x /\ x <= b) \/ (b <= x /\ x <= a)

\* C20: for every configuration with mouse_smooth in [0, 1), whatever
\* mouse_max_delta, the point filter_target returns lies on each axis
\* between the current position and the target, inclusive.
C20_StepBetweenCurrentAndTarget ==
    last_filter.called /\ last_filter.cfg.mouse_smooth \in 0 .. SmoothDen - 1
      => \A i \in 1 .. 2 :
           Between(last_filter.cur[i], last_filter.out[i],
                   last_filter.target[i])

\* a smoothed step that ends strictly between the two on one axis and
\* does not move on the other, which is off target
C20_Witness ==
    /\ last_filter.called
    /\ last_filter.cfg.mouse_smooth \in 1 .. SmoothDen - 1
    /\ last_filter.cur[1] < last_filter.out[1]
    /\ last_filter.out[1] < last_filter.target[1]
    /\ last_filter.out[2] = last_filter.cur[2]
    /\ last_filter.cur[2] # last_filter.target[2]

---------------------------------------------------------------------------
(* sleep_until_ready: what a call reads and writes (SpecRate) *)

\* this step is a sleep_until_ready call, of any kind
GateCalled == last_gate' # last_gate

\* C21: sleep_until_ready('click'), ('key') and ('move') each read and
\* write only the stamp of their own kind: the wait is computed from that
\* stamp and the rate of the kind, the stamp of the kind is written, the
\* other two stamps and the configuration are left as they were; a call
\* with any other kind changes no stamp, leaves the configuration and
\* does not sleep.
C21_KindsIndependent ==
    [][GateCalled =>
         LET k == last_gate'.kind
         IN  /\ cfg' = cfg
             /\ \A j \in Kinds \ {k} : StampAfter(j) = LastOf(j)
             /\ k \in Kinds =>
                  /\ last_gate'.before = LastOf(k)
                  /\ last_gate'.slept =
                       TimeUntil(RateOf(cfg, k), LastOf(k), now)
                  /\ StampAfter(k) = now'
             /\ k \notin Kinds =>
                  /\ now' = now
                  /\ last_gate'.slept = 0]_vars

\* a call with a kind that is none of the three, made after a key gate
\* stamped, at a time when a click gate would have had to sleep
C21_Witness ==
    /\ last_gate.kind = "scroll"
    /\ last_key > 0
    /\ last_click = 0
    /\ last_move = 0
    /\ now < MinDt(cfg.clicks_per_sec)

---------------------------------------------------------------------------
(* The rate gates of the injections of a tool call *)

\* the kinds of gate that match a backend call: a move, a click or a key
\* press; a drag presses a button and moves, so either gate is taken as
\* matching; the set is empty for a call that is none of them
GateKindsOf(op) ==
    CASE op = "move"  -> {"move"}
      [] op = "click" -> {"click"}
      [] op = "drag"  -> {"move", "click"}
      [] op \in {"key_down", "hotkey", "send_text"} -> {"key"}
      [] OTHER -> {}

\* event j of the tool call is a gate of a kind that matches event i
GateFor(j, i) ==
    \E k \in GateKindsOf(events[i].op) :
        events[j].op = "sleep_until_ready:" \o k

\* events i < j are backend calls of one kind with no gate of a matching
\* kind between them
Ungated(i, j) ==
    /\ GateKindsOf(events[i].op) \cap GateKindsOf(events[j].op) # {}
    /\ \A m \in i + 1 .. j - 1 : ~GateFor(m, j)

\* C22: every backend call that starts a mouse move, a click or a key
\* press is preceded, after the previous backend call of its kind, by a
\* sleep_until_ready of the matching kind: within a tool call there is a
\* gate between any two such calls of one kind, and in the first tool
\* call made there is a gate before each.
C22_EveryInjectionGated ==
    /\ \A j \in 1 .. Len(events), i \in 1 .. Len(events) :
           i < j => ~Ungated(i, j)
    /\ n_ops = 1 =>
           \A i \in 1 .. Len(events) :
               GateKindsOf(events[i].op) # {} =>
                   \E j \in 1 .. i - 1 : GateFor(j, i)

\* the backend calls of Click-Tool, and those of Move-Tool but for the
\* snap onto the target, come after a gate of their kind
GatedButSnap ==
    last_tool.tool \in {"Click-Tool", "Move-Tool"} =>
        \A i \in 1 .. Len(events) :
            GateKindsOf(events[i].op) # {} =>
                \/ i > 1 /\ GateFor(i - 1, i)
                \/ /\ last_tool.tool = "Move-Tool"
                   /\ i = Len(events)
                   /\ i > 1
                   /\ events[i - 1] = events[i]

\* Combo-Tool and Type-Tool: a gate of kind key comes between any two of
\* backend.key_down, hotkey and send_text, and before the first
KeyInjectionsGated ==
    last_tool.tool \in {"Combo-Tool", "Type-Tool"} =>
        \A i \in 1 .. Len(events) :
            GateKindsOf(events[i].op) # {} =>
                \E j \in 1 .. i - 1 :
                    /\ GateFor(j, i)
                    /\ \A m \in j + 1 .. i - 1 :
                           GateKindsOf(events[m].op) = {}

\* a Move-Tool call that arrived: its last two backend calls are moves
MoveSnapped ==
    /\ last_tool.tool = "Move-Tool"
    /\ Len(events) >= 3
    /\ events[Len(events)].op = "move"
    /\ events[Len(events) - 1].op = "move"

---------------------------------------------------------------------------
(* backend.py: the operations of the two backends, down to the calls they *)
(* make into user32, the DLL and the operating system                     *)

\* IBSimulatorDLLBackend.move(x, y) with the cursor at cur; placed says
\* whether SetCursorPos put the cursor at p.  The calls made and where
\* the cursor is afterwards.
DllMoveBug(cur, p, placed) ==
    LET at == IF placed THEN p ELSE cur
    IN  [events |-> <<Event("user32.SetCursorPos", p),
                      Event("user32.GetCursorPos", <<>>)>>
                    \o If(at # p, <<Event("dll.IbSendMouseMove",
                                          <<p[1] - at[1], p[2] - at[2]>>)>>),
         cur |-> p]

DllMove(cur, p, placed) ==
    LET at == IF placed THEN p ELSE cur
    IN  IF ~dll_be.ready THEN [events |-> <<>>, cur |-> cur]
        ELSE [events |-> <<Event("user32.SetCursorPos", p),
                           Event("user32.GetCursorPos", <<>>)>>
                         \o If(at # p, <<Event("dll.IbSendMouseMove",
                                               <<p[1] - at[1],
                                                 p[2] - at[2]>>)>>),
              cur |-> p]

\* IbSendMouseClick(code), n times
MouseClicks(code, n) == [i \in 1 .. n |-> Event("dll.IbSendMouseClick", <<code>>)]

\* IBSimulatorDLLBackend.click(x, y, 'left', clicks)
DllClick(cur, p, clicks, placed) ==
    LET m == DllMove(cur, p, placed)
    IN  IF ~dll_be.ready THEN [events |-> <<>>, cur |-> cur]
        ELSE [events |-> m.events \o MouseClicks(6, Max(1, clicks)),
              cur |-> m.cur]

\* IBSimulatorDLLBackend.drag(x1, y1, x2, y2)
DllDrag(cur, p1, p2, placed) ==
    LET m1 == DllMove(cur, p1, placed)
        m2 == DllMove(m1.cur, p2, placed)
    IN  IF ~dll_be.ready THEN [events |-> <<>>, cur |-> cur]
        ELSE [events |-> m1.events \o MouseClicks(2, 1)
                           \o m2.events \o MouseClicks(4, 1),
              cur |-> m2.cur]

\* IBSimulatorDLLBackend.scroll(wheel_times, type, direction), type and
\* direction lower-cased; 120 is WHEEL_DELTA
DllScroll(cur, wheel_times, type, direction) ==
    LET n == Max(1, wheel_times)
    IN  [events |->
           IF ~dll_be.ready THEN <<>>
           ELSE IF type = "vertical"
           THEN <<Event("dll.IbSendMouseWheel",
                        <<IF direction = "down" THEN -(120 * n)
                          ELSE 120 * n>>)>>
           ELSE IF type = "horizontal" /\ direction \in {"left", "right"}
           THEN <<Event("user32.mouse_event",
                        <<IF direction = "left" THEN -(120 * n)
                          ELSE 120 * n>>)>>
           ELSE <<>>,
         cur |-> cur]

\* key_down, key_up and hotkey: the virtual key of a key name, looked up
\* in the table and then, for one character, through VkKeyScanW
VkLookup(key) ==
    IF key.vk # NoVk THEN [events |-> <<>>, vk |-> key.vk]
    ELSE IF key.len # 1 THEN [events |-> <<>>, vk |-> NoVk]
    ELSE [events |-> <<Event("user32.VkKeyScanW", <<key.id>>)>>,
          vk |-> IF key.vkshort = -1 THEN NoVk ELSE key.vkshort % 256]

\* IBSimulatorDLLBackend.key_down(key) and key_up(key), fn naming which
DllKey(cur, fn, key) ==
    LET l == VkLookup(key)
    IN  [events |->
           IF ~dll_be.ready THEN <<>>
           ELSE l.events
                  \o If(l.vk # NoVk,
                        <<Event(IF fn = "key_down" THEN "dll.IbSendKeybdDown"
                                ELSE "dll.IbSendKeybdUp", <<l.vk>>)>>),
         cur |-> cur]

\* the modifiers of hotkey in the order they are pressed, with their
\* virtual keys
HotkeyMods == <<"win", "ctrl", "alt", "shift">>
ModVk(m) ==
    CASE m = "win" -> 91 [] m = "ctrl" -> CTRL [] m = "alt" -> ALT
      [] OTHER -> SHIFT

\* the calls that press (fn "Down") or release (fn "Up") the modifiers
\* mods, taken in the order order
ModCalls(fn, mods, order) ==
    LET held == SelectSeq(order, LAMBDA m : m \in mods)
    IN  [i \in DOMAIN held |-> Event("dll.IbSendKeybd" \o fn,
                                     <<ModVk(held[i])>>)]

\* IBSimulatorDLLBackend.hotkey(combo), combo split into its modifiers
\* and its key (a sequence of one key, empty when there is none)
DllHotkey(cur, mods, key) ==
    LET l == IF key = <<>> THEN [events |-> <<>>, vk |-> NoVk]
             ELSE VkLookup(key[1])
    IN  [events |->
           IF ~dll_be.ready THEN <<>>
           ELSE ModCalls("Down", mods, HotkeyMods)
                  \o l.events
                  \o If(l.vk # NoVk,
                        <<Event("dll.IbSendKeybdDown", <<l.vk>>),
                          Event("dll.IbSendKeybdUp", <<l.vk>>)>>)
                  \o ModCalls("Up", mods,
                              <<"shift", "alt", "ctrl", "win">>),
         cur |-> cur]

\* IBSimulatorAHKBackend._run(body); rc is what AutoHotkey exits with,
\* timed_out whether subprocess.run gives up after its 6 seconds instead
AhkRun(rc, timed_out) ==
    IF ~ahk_be.ready
    THEN [events |-> <<>>, outcome |-> "returned", rc |-> 1]
    ELSE [events |-> <<Event("tempfile.write", <<>>),
                       Event("subprocess.run", <<>>),
                       Event("os.remove", <<>>)>>,
          outcome |-> IF timed_out THEN "TimeoutExpired" ELSE "returned",
          rc |-> IF timed_out THEN 0 ELSE rc]

---------------------------------------------------------------------------
(* SpecOps: one operation on a backend object of every host *)

InitOps ==
    /\ cfg = DefaultConfig
    /\ now = 0
    /\ last_click = 0
    /\ last_key = 0
    /\ last_move = 0
    /\ last_gate = NoGate
    /\ last_filter = NoFilter
    /\ n_ops = 0
    /\ env_backend = "unset"
    /\ host \in Hosts
    /\ dll_be = DLLBackendInit(host)
    /\ ahk_be = AHKBackendInit(host)
    /\ backend = "none"
    /\ pc = "start"
    /\ error = NoError
    /\ last_info = NoInfo
    /\ NoCoerce
    /\ NoTools

\* what no operation of a backend changes
OpsFrame ==
    /\ n_ops' = n_ops + 1
    /\ UNCHANGED <<bootVars, last_info, coerceVars, last_gate, last_filter,
                   last_config, deskVars>>

\* the operation op of the DLL backend made the calls of r
DllCalled(op, r) ==
    /\ events' = r.events
    /\ cursor' = r.cur
    /\ last_tool' = [tool |-> "dll." \o op, outcome |-> "returned",
                     bad_loc |-> FALSE, stamps |-> Stamps, repeats |-> 0,
                     cursor |-> cursor]
    /\ UNCHANGED <<rateVars, last_send>>

\* the combinations hotkey is called with: 'ctrl+v', 'enter' (here a key
\* of the table), 'ctrl+alt+shift+win', '@' and ''
Hotkeys ==
    {[mods |-> {"ctrl"}, key |-> <<Key(2, 1, 1, 65, 65)>>],
     [mods |-> {}, key |-> <<Key(1, 5, 5, SHIFT, NoVk)>>],
     [mods |-> {"ctrl", "alt", "shift", "win"}, key |-> <<>>],
     [mods |-> {}, key |-> <<Key(3, 1, 1, NoVk, 256 + 50)>>],
     [mods |-> {}, key |-> <<>>]}

NextOps ==
    \/ /\ n_ops < 1
       /\ \E p \in Point, placed \in BOOLEAN :
              OpsFrame /\ DllCalled("move", DllMove(cursor, p, placed))
    \/ /\ n_ops < 1
       /\ \E p \in Point, clicks \in {0, 2}, placed \in BOOLEAN :
              OpsFrame
                /\ DllCalled("click", DllClick(cursor, p, clicks, placed))
    \/ /\ n_ops < 1
       /\ \E p1 \in Point, p2 \in Point, placed \in BOOLEAN :
              OpsFrame /\ DllCalled("drag", DllDrag(cursor, p1, p2, placed))
    \/ /\ n_ops < 1
       /\ \E wheel_times \in {0, 2},
             type \in {"vertical", "horizontal", "diagonal"},
             direction \in {"up", "down", "left"} :
              OpsFrame
                /\ DllCalled("scroll",
                             DllScroll(cursor, wheel_times, type, direction))
    \/ /\ n_ops < 1
       /\ \E fn \in {"key_down", "key_up"}, key \in KeyNames :
              /\ key.units = 1
              /\ OpsFrame
              /\ DllCalled(fn, DllKey(cursor, fn, key))
    \/ /\ n_ops < 1
       /\ \E h \in Hotkeys :
              OpsFrame /\ DllCalled("hotkey", DllHotkey(cursor, h.mods, h.key))
    \/ /\ n_ops < 1
       /\ \E typing \in Typings :
              /\ \A i \in DOMAIN typing : typing[i][2] = 0
              /\ OpsFrame
              /\ SendText([i \in DOMAIN typing |-> typing[i][1]],
                          [i \in DOMAIN typing |-> 0], 0)
              /\ events' = <<>>
              /\ last_tool' = [tool |-> "dll.send_text",
                               outcome |-> "returned", bad_loc |-> FALSE,
                               stamps |-> Stamps, repeats |-> 0,
                               cursor |-> cursor]
              /\ UNCHANGED cursor
    \/ /\ n_ops < 1
       /\ \E rc \in {0, 1, 2}, timed_out \in BOOLEAN :
              LET r == AhkRun(rc, timed_out)
              IN  /\ OpsFrame
                  /\ events' = r.events
                  /\ last_tool' = [tool |-> "ahk._run",
                                   outcome |-> r.outcome, bad_loc |-> FALSE,
                                   stamps |-> Stamps, repeats |-> 0,
                                   rc |-> r.rc]
                  /\ UNCHANGED <<rateVars, cursor, last_send>>

SpecOps == InitOps /\ [][NextOps]_vars

\* C23: a backend that is not ready performs no injection: every
\* operation of a DLL backend that is not ready (move, click, drag,
\* scroll, send_text, hotkey, key_down, key_up) returns having called
\* neither the DLL nor user32 and leaves the cursor where it was, and
\* _run of an AHK backend that is not ready returns 1 having written no
\* script file and started no process.
C23_NotReadyInjectsNothing ==
    /\ last_tool.tool \in {"dll.move", "dll.click", "dll.drag", "dll.scroll",
                           "dll.send_text", "dll.hotkey", "dll.key_down",
                           "dll.key_up"} /\ ~dll_be.ready =>
         /\ events = <<>>
         /\ last_send.scanned = <<>>
         /\ last_send.calls = <<>>
         /\ cursor = last_tool.cursor
         /\ last_tool.outcome = "returned"
    /\ last_tool.tool = "ahk._run" /\ ~ahk_be.ready =>
         /\ events = <<>>
         /\ last_tool.outcome = "returned"
         /\ last_tool.rc = 1

\* a drag on a DLL backend whose DLL loaded and whose IbSendInit failed
C23_Witness ==
    /\ last_tool.tool = "dll.drag"
    /\ host.dll_file /\ host.dll_loads /\ host.init_rc # 0
    /\ ~dll_be.ready
    /\ events = <<>>

\* _run on an AHK backend that is not ready
AhkNotRun ==
    /\ last_tool.tool = "ahk._run"
    /\ ~ahk_be.ready
    /\ last_tool.rc = 1

\* a DLL backend that is ready dragged, the cursor ending moved
DllDragged ==
    /\ last_tool.tool = "dll.drag"
    /\ dll_be.ready
    /\ Len(events) >= 6
    /\ cursor # last_tool.cursor

---------------------------------------------------------------------------
(* Windows-SetPos: the size argument (SpecTools) *)

\* the last call was Windows-SetPos with a str as size, and neither hwnd
\* nor loc was refused
SizeStringGiven ==
    /\ last_tool.tool = "Windows-SetPos"
    /\ last_tool.size.t = "str"
    /\ last_tool.bad \notin {"hwnd", "loc"}

\* C24: a size given as a string that holds at least two decimal integers
\* is parsed into (w, h), the first two integers, as _coerce_xy parses a
\* location string, and Windows-SetPos sets that size.
C24_StringSizeAccepted ==
    SizeStringGiven /\ CoerceXY(last_tool.size).ok =>
        /\ last_tool.outcome = "returned"
        /\ events # <<>>
        /\ events[1].op = "SetWindowPos"
        /\ events[1].args[4] = CoerceXY(last_tool.size).x
        /\ events[1].args[5] = CoerceXY(last_tool.size).y

\* every size given as a string is refused with ValueError, no window
\* being touched
SizeStringRefused ==
    SizeStringGiven =>
        /\ last_tool.outcome = "ValueError"
        /\ last_tool.bad = "size"
        /\ events = <<>>

\* a size given as a dict with w and h is set
SizeDictAccepted ==
    /\ last_tool.tool = "Windows-SetPos"
    /\ last_tool.size.t = "dict"
    /\ last_tool.outcome = "returned"
    /\ events[1].args[4] = 1
    /\ events[1].args[5] = 2

=============================================================================
